---- MODULE Spec2Model ----
(***************************************************************************)
(* A model of dwm-libconfig's runtime configuration parser (src/parser.c): *)
(* the candidate-file resolution chain (_open_config), the section parsers *)
(* driven by parse_config, the backup decision, and the binding grammar    *)
(* (_parse_keybind / _parse_buttonbind).                                   *)
(*                                                                         *)
(* Strings of the binding grammar are sequences of lexemes: the three      *)
(* separator characters ",", "+" and " " are lexemes of their own and a    *)
(* word is a maximal run of other characters.  strtok and _trim_whitespace *)
(* only ever cut at those three characters, so they are modelled exactly.  *)
(* Memory allocation is assumed to succeed (strdup, calloc, realloc).      *)
(***************************************************************************)
EXTENDS Integers, Sequences, FiniteSets, TLC

VARIABLES
    pc,               \* position inside parse_config
    env,              \* the process environment: CLI path, XDG config/data roots
    fs,               \* candidate path -> "missing" | "bad" | "good"
    doc,              \* content of every well-formed candidate file
    config,           \* the Configuration aggregate (dwm_config)
    config_filepaths, \* _open_config's local candidate array
    idx,              \* _open_config's loop index i
    opened,           \* history: the paths handed to fopen, in order
    returned,         \* history: the value each section parser returned, in call order
    total_errors,     \* parse_config's accumulator
    backup,           \* what _backup_config did
    ret,              \* parse_config's return value
    tags,             \* the global tags[] array
    theme,            \* the globals fonts[0] and colors[][]
    bind_in,          \* one binding line handed to _parse_keybind / _parse_buttonbind
    bind_out,         \* what that call returned and stored
    parses,           \* how many times parse_config has been called
    freed             \* history: the pointers config_cleanup handed to free()

vars == <<pc, env, fs, doc, config, config_filepaths, idx, opened, returned,
          total_errors, backup, ret, tags, theme, bind_in, bind_out,
          parses, freed>>

NULL == "NULL"

-----------------------------------------------------------------------------
(* C string helpers over lexeme sequences.  A pointer that may be NULL is a *)
(* sequence of length 0 (NULL) or 1 (the string it points to).              *)

\* strtok( s, d ) called until it returns NULL: the maximal non-empty runs of
\* lexemes other than the delimiter d, in order (empty runs are skipped).
RECURSIVE strtok_from(_, _, _, _)
strtok_from(s, d, k, cur) ==
    IF k > Len(s)
    THEN (IF cur = <<>> THEN <<>> ELSE <<cur>>)
    ELSE IF s[k] = d
         THEN (IF cur = <<>> THEN <<>> ELSE <<cur>>) \o strtok_from(s, d, k + 1, <<>>)
         ELSE strtok_from(s, d, k + 1, Append(cur, s[k]))

strtok(s, d) == strtok_from(s, d, 1, <<>>)

RECURSIVE drop_leading_space(_)
drop_leading_space(s) ==
    IF s # <<>> /\ Head(s) = " " THEN drop_leading_space(Tail(s)) ELSE s

RECURSIVE drop_trailing_space(_)
drop_trailing_space(s) ==
    IF s # <<>> /\ s[Len(s)] = " "
    THEN drop_trailing_space(SubSeq(s, 1, Len(s) - 1))
    ELSE s

_trim_whitespace(s) == drop_trailing_space(drop_leading_space(s))

\* The n-th strtok result, trimmed when it is not NULL.
trimmed_token(toks, n) ==
    IF n <= Len(toks) THEN <<_trim_whitespace(toks[n])>> ELSE <<>>

\* tolower over the words used: strcasecmp compares the lower-cased strings.
tolower_word(w) ==
    CASE w = "SUPER" -> "super"
      [] w = "Shift" -> "shift"
      [] w = "KillClient" -> "killclient"
      [] w = "TAG" -> "tag"
      [] w = "Client" -> "client"
      [] w = "WINDOW" -> "window"
      [] w = "Layout" -> "layout"
      [] w = "STATUS" -> "status"
      [] w = "Title" -> "title"
      [] w = "DeskTop" -> "desktop"
      [] w = "LeftClick" -> "leftclick"
      [] w = "Q" -> "q"
      [] w = "Return" -> "return"
      [] w = "F1" -> "f1"
      [] OTHER -> w

\* strcasecmp( token, name ) == 0.  A token of several lexemes (embedded
\* blanks or "+") equals no table name: no name contains those characters.
strcasecmp_eq(tok, name) ==
    Len(tok) = 1 /\ tolower_word(tok[1]) = name

-----------------------------------------------------------------------------
(* Alias tables, in source order.                                          *)

ARG_TYPE_NONE == "ARG_TYPE_NONE"
ARG_TYPE_INT == "ARG_TYPE_INT"
ARG_TYPE_UINT == "ARG_TYPE_UINT"
ARG_TYPE_FLOAT == "ARG_TYPE_FLOAT"
ARG_TYPE_POINTER == "ARG_TYPE_POINTER"

NoSymbol == "NoSymbol"

TAGMASK == 511

\* Floats are kept in hundredths: -0.95f is -95, 1.95f is 195.
function_alias_map == <<
    [name |-> "focusmon", func |-> "focusmon", arg_type |-> ARG_TYPE_INT, range_min |-> -99, range_max |-> 99],
    [name |-> "focusstack", func |-> "focusstack", arg_type |-> ARG_TYPE_INT, range_min |-> -99, range_max |-> 99],
    [name |-> "incnmaster", func |-> "incnmaster", arg_type |-> ARG_TYPE_INT, range_min |-> -99, range_max |-> 99],
    [name |-> "killclient", func |-> "killclient", arg_type |-> ARG_TYPE_NONE, range_min |-> 0, range_max |-> 0],
    [name |-> "movemouse", func |-> "movemouse", arg_type |-> ARG_TYPE_NONE, range_min |-> 0, range_max |-> 0],
    [name |-> "quit", func |-> "quit", arg_type |-> ARG_TYPE_NONE, range_min |-> 0, range_max |-> 0],
    [name |-> "resizemouse", func |-> "resizemouse", arg_type |-> ARG_TYPE_NONE, range_min |-> 0, range_max |-> 0],
    [name |-> "setlayout-tiled", func |-> "setlayout_tiled", arg_type |-> ARG_TYPE_NONE, range_min |-> 0, range_max |-> 0],
    [name |-> "setlayout-floating", func |-> "setlayout_floating", arg_type |-> ARG_TYPE_NONE, range_min |-> 0, range_max |-> 0],
    [name |-> "setlayout-monocle", func |-> "setlayout_monocle", arg_type |-> ARG_TYPE_NONE, range_min |-> 0, range_max |-> 0],
    [name |-> "setlayout-toggle", func |-> "setlayout", arg_type |-> ARG_TYPE_NONE, range_min |-> 0, range_max |-> 0],
    [name |-> "setmfact", func |-> "setmfact", arg_type |-> ARG_TYPE_FLOAT, range_min |-> -95, range_max |-> 195],
    [name |-> "spawn", func |-> "spawn_simple", arg_type |-> ARG_TYPE_POINTER, range_min |-> 0, range_max |-> 0],
    [name |-> "tag", func |-> "tag", arg_type |-> ARG_TYPE_INT, range_min |-> -1, range_max |-> TAGMASK],
    [name |-> "tagmon", func |-> "tagmon", arg_type |-> ARG_TYPE_INT, range_min |-> -99, range_max |-> 99],
    [name |-> "togglebar", func |-> "togglebar", arg_type |-> ARG_TYPE_NONE, range_min |-> 0, range_max |-> 0],
    [name |-> "togglefloating", func |-> "togglefloating", arg_type |-> ARG_TYPE_NONE, range_min |-> 0, range_max |-> 0],
    [name |-> "toggletag", func |-> "toggletag", arg_type |-> ARG_TYPE_INT, range_min |-> -1, range_max |-> TAGMASK],
    [name |-> "toggleview", func |-> "toggleview", arg_type |-> ARG_TYPE_INT, range_min |-> -1, range_max |-> TAGMASK],
    [name |-> "view", func |-> "view", arg_type |-> ARG_TYPE_INT, range_min |-> -1, range_max |-> TAGMASK],
    [name |-> "zoom", func |-> "zoom", arg_type |-> ARG_TYPE_NONE, range_min |-> 0, range_max |-> 0] >>

modifier_alias_map == <<
    [name |-> "super", mask |-> "Mod4Mask"],
    [name |-> "control", mask |-> "ControlMask"],
    [name |-> "ctrl", mask |-> "ControlMask"],
    [name |-> "shift", mask |-> "ShiftMask"],
    [name |-> "alt", mask |-> "Mod1Mask"],
    [name |-> "caps", mask |-> "LockMask"],
    [name |-> "capslock", mask |-> "LockMask"],
    [name |-> "mod1", mask |-> "Mod1Mask"],
    [name |-> "mod2", mask |-> "Mod2Mask"],
    [name |-> "mod3", mask |-> "Mod3Mask"],
    [name |-> "mod4", mask |-> "Mod4Mask"],
    [name |-> "mod5", mask |-> "Mod5Mask"] >>

button_alias_map == <<
    [name |-> "leftclick", button |-> 1],
    [name |-> "left-click", button |-> 1],
    [name |-> "middleclick", button |-> 2],
    [name |-> "middle-click", button |-> 2],
    [name |-> "rightclick", button |-> 3],
    [name |-> "right-click", button |-> 3],
    [name |-> "scrollup", button |-> 4],
    [name |-> "scroll-up", button |-> 4],
    [name |-> "scrolldown", button |-> 5],
    [name |-> "scroll-down", button |-> 5] >>

click_alias_map == <<
    [name |-> "tag", click |-> "ClkTagBar"],
    [name |-> "layout", click |-> "ClkLtSymbol"],
    [name |-> "status", click |-> "ClkStatusText"],
    [name |-> "title", click |-> "ClkWinTitle"],
    [name |-> "client", click |-> "ClkClientWin"],
    [name |-> "desktop", click |-> "ClkRootWin"] >>

\* The indexes of the table rows whose name equals the token, ignoring case.
alias_matches(map, tok) ==
    { k \in 1..Len(map) : strcasecmp_eq(tok, map[k].name) }

first_match(S) == CHOOSE k \in S : \A j \in S : k <= j
last_match(S) == CHOOSE k \in S : \A j \in S : k >= j

-----------------------------------------------------------------------------
(* Number lexing (strtol, strtoul, strtof) over the words used.            *)

\* The longest prefix of a word that strtol( w, &end, 10 ) converts: conv is
\* whether any digit was converted, val the value, full whether end reached
\* the end of the word, signed whether the word carries its own sign.
strtol_word(w) ==
    CASE w = "5" -> [conv |-> TRUE, val |-> 5, full |-> TRUE, signed |-> FALSE]
      [] w = "1" -> [conv |-> TRUE, val |-> 1, full |-> TRUE, signed |-> FALSE]
      [] w = "0" -> [conv |-> TRUE, val |-> 0, full |-> TRUE, signed |-> FALSE]
      [] w = "255" -> [conv |-> TRUE, val |-> 255, full |-> TRUE, signed |-> FALSE]
      [] w = "256" -> [conv |-> TRUE, val |-> 256, full |-> TRUE, signed |-> FALSE]
      [] w = "600" -> [conv |-> TRUE, val |-> 600, full |-> TRUE, signed |-> FALSE]
      [] w = "-7" -> [conv |-> TRUE, val |-> -7, full |-> TRUE, signed |-> TRUE]
      [] w = "-1" -> [conv |-> TRUE, val |-> -1, full |-> TRUE, signed |-> TRUE]
      [] w = "5x" -> [conv |-> TRUE, val |-> 5, full |-> FALSE, signed |-> FALSE]
      [] w = "0.5" -> [conv |-> TRUE, val |-> 0, full |-> FALSE, signed |-> FALSE]
      [] w = "2.5" -> [conv |-> TRUE, val |-> 2, full |-> FALSE, signed |-> FALSE]
      [] OTHER -> [conv |-> FALSE, val |-> 0, full |-> FALSE, signed |-> FALSE]

\* The same for strtof, the value in hundredths.
strtof_word(w) ==
    CASE w = "0.5" -> [conv |-> TRUE, val |-> 50, full |-> TRUE, signed |-> FALSE]
      [] w = "2.5" -> [conv |-> TRUE, val |-> 250, full |-> TRUE, signed |-> FALSE]
      [] OTHER -> [strtol_word(w) EXCEPT !.val = 100 * @]

\* A conversion of a non-empty trimmed token: an optional "+" sign lexeme, then
\* the numeric word; anything after the converted prefix is left unconsumed.
\* Without a conversion the result is 0 and end stays at the start.
strto_body(tok) == IF Head(tok) = "+" THEN Tail(tok) ELSE tok

strto_result(tok, body, p) ==
    IF body # <<>> /\ p.conv /\ ~(Head(tok) = "+" /\ p.signed)
    THEN [val |-> p.val, end_is_nul |-> p.full /\ Len(body) = 1, conv |-> TRUE]
    ELSE [val |-> 0, end_is_nul |-> FALSE, conv |-> FALSE]

strto_word(tok) == IF strto_body(tok) = <<>> THEN "" ELSE strto_body(tok)[1]

strtol(tok) == strto_result(tok, strto_body(tok), strtol_word(strto_word(tok)))
strtof(tok) == strto_result(tok, strto_body(tok), strtof_word(strto_word(tok)))

\* strtoul negates a signed input modulo 2^64; the wrapped value is above
\* every range maximum and every button number.
ULONG_WRAPPED == 2147483647
negated_modulo(r) == IF r.val < 0 THEN [r EXCEPT !.val = ULONG_WRAPPED] ELSE r
strtoul(tok) == negated_modulo(strtol(tok))

\* DEFINE_CLAMP_FUNCTION: the clamped value and whether a warning was logged.
clamp_range(input, min, max) ==
    IF input < min THEN [value |-> min, warned |-> TRUE]
    ELSE IF input > max THEN [value |-> max, warned |-> TRUE]
    ELSE [value |-> input, warned |-> FALSE]

\* clamp_range_float: a float is its value in hundredths, or not a number
\* (what strtof makes of "nan").  Every comparison with NaN is false.
float_less(a, b) == ~a.nan /\ ~b.nan /\ a.val < b.val

clamp_range_float(input, min, max) ==
    IF float_less(input, min) THEN [value |-> min, warned |-> TRUE]
    ELSE IF float_less(max, input) THEN [value |-> max, warned |-> TRUE]
    ELSE [value |-> input, warned |-> FALSE]

-----------------------------------------------------------------------------
(* The binding grammar.                                                    *)

\* An Arg union; v is a string pointer (<<>> is NULL).
ZeroArg == [i |-> 0, ui |-> 0, f |-> 0, v |-> <<>>]

\* A numeric case that never looks at the end pointer: the argument rule of
\* C7 must tell it from the check of the code.
numeric_argument_mutant(r, clamped, parsed_arg, member) ==
    [ret |-> IF r.conv THEN 0 ELSE -1,
     arg |-> [parsed_arg EXCEPT ![member] = clamped.value]]

\* The numeric cases of _parse_bind_argument: the clamped value is stored,
\* then the end pointer is checked.
numeric_argument(r, clamped, parsed_arg, member) ==
    [ret |-> IF r.end_is_nul THEN 0 ELSE -1,
     arg |-> [parsed_arg EXCEPT ![member] = clamped.value]]

\* An argument parser that reports success without storing anything: the
\* stored-argument rule of C12 must tell it from the code.
_parse_bind_argument_mutant(argument_string, arg_type, range_min, range_max, parsed_arg) ==
    [ret |-> 0, arg |-> parsed_arg]

\* _parse_bind_argument: the argument is a pointer that may be NULL.
_parse_bind_argument(argument_string, arg_type, range_min, range_max, parsed_arg) ==
    IF argument_string = <<>> \/ argument_string[1] = <<>>
    THEN [ret |-> -1, arg |-> parsed_arg]
    ELSE CASE arg_type = ARG_TYPE_INT ->
                numeric_argument(strtol(argument_string[1]),
                    clamp_range(strtol(argument_string[1]).val, range_min, range_max),
                    parsed_arg, "i")
           [] arg_type = ARG_TYPE_UINT ->
                numeric_argument(strtoul(argument_string[1]),
                    clamp_range(strtoul(argument_string[1]).val, range_min, range_max),
                    parsed_arg, "ui")
           [] arg_type = ARG_TYPE_FLOAT ->
                numeric_argument(strtof(argument_string[1]),
                    clamp_range(strtof(argument_string[1]).val, range_min, range_max),
                    parsed_arg, "f")
           [] arg_type = ARG_TYPE_POINTER ->
                [ret |-> 0, arg |-> [parsed_arg EXCEPT !.v = <<argument_string[1]>>]]
           [] arg_type = ARG_TYPE_NONE ->
                [ret |-> 0, arg |-> parsed_arg]
           [] OTHER -> [ret |-> -1, arg |-> parsed_arg]

\* _parse_bind_function: the first matching row wins.
_parse_bind_function(function_string) ==
    LET m == alias_matches(function_alias_map, function_string) IN
    IF m = {} THEN [ret |-> -1, row |-> function_alias_map[1]]
    ELSE [ret |-> 0, row |-> function_alias_map[first_match(m)]]

\* _parse_bind_modifier: the loop has no break, the last matching row wins.
_parse_bind_modifier(modifier_string, parsed_modifier) ==
    LET m == alias_matches(modifier_alias_map, modifier_string) IN
    IF m = {} THEN [ret |-> -1, mask |-> parsed_modifier]
    ELSE [ret |-> 0, mask |-> parsed_modifier \cup {modifier_alias_map[last_match(m)].mask}]

\* XStringToKeysym over the words used (names are case sensitive), then
\* XConvertCase's lower-case symbol.
XStringToKeysym(tok) ==
    IF Len(tok) # 1 THEN NoSymbol
    ELSE CASE tok[1] = "q" -> "XK_q"
           [] tok[1] = "Q" -> "XK_Q"
           [] tok[1] = "Return" -> "XK_Return"
           [] tok[1] = "F1" -> "XK_F1"
           [] tok[1] = "5" -> "XK_5"
           [] tok[1] = "1" -> "XK_1"
           [] tok[1] = "0" -> "XK_0"
           [] OTHER -> NoSymbol

XConvertCase_lower(sym) == IF sym = "XK_Q" THEN "XK_q" ELSE sym

_parse_keybind_keysym(keysym_string) ==
    LET sym == XStringToKeysym(keysym_string) IN
    IF sym = NoSymbol THEN [ret |-> -1, keysym |-> sym]
    ELSE [ret |-> 0, keysym |-> XConvertCase_lower(sym)]

\* _parse_buttonbind_button without an alias: a decimal number in 1..255.
button_number(r, parsed_button) ==
    IF ~r.conv \/ ~r.end_is_nul THEN [ret |-> -1, button |-> parsed_button]
    ELSE IF r.val < 1 \/ r.val > 255 THEN [ret |-> -1, button |-> parsed_button]
    ELSE [ret |-> 0, button |-> r.val]

\* _parse_buttonbind_button: an alias (first match), else a decimal number.
_parse_buttonbind_button(button_string, parsed_button) ==
    LET m == alias_matches(button_alias_map, button_string)
    IN  IF m # {} THEN [ret |-> 0, button |-> button_alias_map[first_match(m)].button]
        ELSE button_number(strtoul(button_string), parsed_button)

\* A click parser that compares with strcmp: the any-letter-case rule of C25
\* must tell it from the code.
_parse_buttonbind_click_mutant(click_string, parsed_click) ==
    LET m == { k \in 1..Len(click_alias_map) : click_string = <<click_alias_map[k].name>> } IN
    IF m = {} THEN [ret |-> -1, click |-> parsed_click]
    ELSE [ret |-> 0, click |-> click_alias_map[first_match(m)].click]

\* _parse_buttonbind_click: the first matching row wins.
_parse_buttonbind_click(click_string, parsed_click) ==
    LET m == alias_matches(click_alias_map, click_string) IN
    IF m = {} THEN [ret |-> -1, click |-> parsed_click]
    ELSE [ret |-> 0, click |-> click_alias_map[first_match(m)].click]

\* The loop that splits the modifier field on "+": it stops once max_keys
\* non-blank tokens are stored; tmp_token is then the next strtok result.
RECURSIVE split_modifier_tokens(_, _, _, _)
split_modifier_tokens(toks, k, max_keys, acc) ==
    IF k > Len(toks) \/ Len(acc) >= max_keys
    THEN [list |-> acc, tmp_token_left |-> k <= Len(toks)]
    ELSE LET trimmed == _trim_whitespace(toks[k]) IN
         split_modifier_tokens(toks, k + 1, max_keys,
                               IF trimmed # <<>> THEN Append(acc, trimmed) ELSE acc)

\* The modifier loop: OR the masks of tokens 1..n-1, stop at the first failure.
RECURSIVE parse_modifiers(_, _, _)
parse_modifiers(list, k, mask) ==
    IF k > Len(list) - 1 THEN [ret |-> 0, mask |-> mask]
    ELSE LET r == _parse_bind_modifier(list[k], mask) IN
         IF r.ret # 0 THEN [ret |-> -1, mask |-> mask]
         ELSE parse_modifiers(list, k + 1, r.mask)

\* A Key as ecalloc leaves it.
ZeroKey == [mod |-> {}, keysym |-> NoSymbol, func |-> NULL,
            argument_type |-> ARG_TYPE_NONE, arg |-> ZeroArg]

\* _parse_keybind, read from its last step to its first.  Every step gets the
\* result of the call before it and the Key as written so far, and returns
\* the return value and the Key as the call leaves it.

\* The keysym returned by _parse_keybind_keysym is stored whatever it is.
keybind_keysym_step(ks, key) ==
    [ret |-> ks.ret, key |-> [key EXCEPT !.keysym = ks.keysym]]

\* The modifier mask is stored; the last token is the key.
keybind_modifiers_step(md, list, key) ==
    IF md.ret # 0 THEN [ret |-> -1, key |-> [key EXCEPT !.mod = md.mask]]
    ELSE keybind_keysym_step(_parse_keybind_keysym(list[Len(list)]),
                             [key EXCEPT !.mod = md.mask])

\* The token count checks after the "+" split.
keybind_split_step(sp, max_keys, key) ==
    IF Len(sp.list) = 0 THEN [ret |-> -1, key |-> key]
    ELSE IF Len(sp.list) = max_keys /\ sp.tmp_token_left THEN [ret |-> -1, key |-> key]
    ELSE keybind_modifiers_step(parse_modifiers(sp.list, 1, key.mod), sp.list, key)

\* The argument is stored, then the modifier field is split.
keybind_argument_step(ar, modifier_token_list, max_keys, key) ==
    IF ar.ret # 0 THEN [ret |-> -1, key |-> [key EXCEPT !.arg = ar.arg]]
    ELSE keybind_split_step(
             split_modifier_tokens(strtok(modifier_token_list, "+"), 1, max_keys, <<>>),
             max_keys, [key EXCEPT !.arg = ar.arg])

\* The action and its argument kind are stored; an argument is parsed unless
\* the kind is none.
keybind_function_step(fn, argument_token, modifier_token_list, max_keys, key) ==
    IF fn.ret # 0 THEN [ret |-> -1, key |-> key]
    ELSE keybind_argument_step(
             IF fn.row.arg_type # ARG_TYPE_NONE
             THEN _parse_bind_argument(argument_token, fn.row.arg_type,
                                       fn.row.range_min, fn.row.range_max, key.arg)
             ELSE [ret |-> 0, arg |-> key.arg],
             modifier_token_list, max_keys,
             [key EXCEPT !.func = fn.row.func, !.argument_type = fn.row.arg_type])

\* The three strtok( , "," ) calls and the NULL / empty check of the first two.
keybind_fields_step(fields, max_keys, parsed_keybind) ==
    IF \/ Len(fields) < 2
       \/ fields[1] = <<>>
       \/ _trim_whitespace(fields[2]) = <<>>
    THEN [ret |-> -1, key |-> parsed_keybind]
    ELSE keybind_function_step(_parse_bind_function(_trim_whitespace(fields[2])),
                               trimmed_token(fields, 3), fields[1], max_keys,
                               parsed_keybind)

\* _parse_keybind( keybind_string, max_keys, parsed_keybind )
_parse_keybind(keybind_string, max_keys, parsed_keybind) ==
    keybind_fields_step(strtok(keybind_string, ","), max_keys, parsed_keybind)

\* A Button as ecalloc leaves it.
ZeroButton == [click |-> "0", mask |-> {}, button |-> 0, func |-> NULL,
               argument_type |-> ARG_TYPE_NONE, arg |-> ZeroArg]

\* _parse_buttonbind, read from its last step to its first.

\* The argument is stored whatever _parse_bind_argument returned.
buttonbind_argument_step(ar, button) ==
    [ret |-> ar.ret, button |-> [button EXCEPT !.arg = ar.arg]]

buttonbind_function_step(fn, argument_token, button) ==
    IF fn.ret # 0 THEN [ret |-> -1, button |-> button]
    ELSE buttonbind_argument_step(
             IF fn.row.arg_type # ARG_TYPE_NONE
             THEN _parse_bind_argument(argument_token, fn.row.arg_type,
                                       fn.row.range_min, fn.row.range_max, button.arg)
             ELSE [ret |-> 0, arg |-> button.arg],
             [button EXCEPT !.func = fn.row.func, !.argument_type = fn.row.arg_type])

buttonbind_click_step(ck, function_token, argument_token, button) ==
    IF ck.ret # 0 THEN [ret |-> -1, button |-> [button EXCEPT !.click = ck.click]]
    ELSE buttonbind_function_step(_parse_bind_function(function_token), argument_token,
                                  [button EXCEPT !.click = ck.click])

buttonbind_button_step(bt, click_token, function_token, argument_token, button) ==
    IF bt.ret # 0 THEN [ret |-> -1, button |-> [button EXCEPT !.button = bt.button]]
    ELSE buttonbind_click_step(_parse_buttonbind_click(click_token, button.click),
                               function_token, argument_token,
                               [button EXCEPT !.button = bt.button])

buttonbind_modifiers_step(md, list, click_token, function_token, argument_token, button) ==
    IF md.ret # 0 THEN [ret |-> -1, button |-> [button EXCEPT !.mask = md.mask]]
    ELSE buttonbind_button_step(_parse_buttonbind_button(list[Len(list)], button.button),
                                click_token, function_token, argument_token,
                                [button EXCEPT !.mask = md.mask])

buttonbind_split_step(sp, max_keys, click_token, function_token, argument_token, button) ==
    IF Len(sp.list) = 0 THEN [ret |-> -1, button |-> button]
    ELSE IF Len(sp.list) = max_keys /\ sp.tmp_token_left THEN [ret |-> -1, button |-> button]
    ELSE buttonbind_modifiers_step(parse_modifiers(sp.list, 1, button.mask), sp.list,
                                   click_token, function_token, argument_token, button)

\* The four strtok( , "," ) calls and the NULL / empty check of the first three.
buttonbind_fields_step(fields, max_keys, parsed_buttonbind) ==
    IF \/ Len(fields) < 3
       \/ fields[1] = <<>>
       \/ _trim_whitespace(fields[2]) = <<>>
       \/ _trim_whitespace(fields[3]) = <<>>
    THEN [ret |-> -1, button |-> parsed_buttonbind]
    ELSE buttonbind_split_step(
             split_modifier_tokens(strtok(fields[1], "+"), 1, max_keys, <<>>),
             max_keys, _trim_whitespace(fields[2]), _trim_whitespace(fields[3]),
             trimmed_token(fields, 4), parsed_buttonbind)

\* _parse_buttonbind( buttonbind_string, max_keys, parsed_buttonbind )
_parse_buttonbind(buttonbind_string, max_keys, parsed_buttonbind) ==
    buttonbind_fields_step(strtok(buttonbind_string, ","), max_keys, parsed_buttonbind)

-----------------------------------------------------------------------------
(* Typed lookups of the Value Lookup Adapter.  A document value is a       *)
(* sequence: <<>> when the key is missing or of the wrong type, <<x>> when *)
(* libconfig finds x.                                                      *)

\* An int converted to unsigned int: a negative value wraps to 2^32 + n, which
\* is above every range maximum used.
UINT_WRAPPED == 2147483647
to_unsigned(n) == IF n < 0 THEN UINT_WRAPPED ELSE n

\* _libconfig_lookup_bool: the int libconfig found is converted to bool.
_libconfig_lookup_bool(found, optional, parsed_value) ==
    IF found = <<>>
    THEN [ret |-> IF optional THEN 0 ELSE -1, value |-> parsed_value]
    ELSE [ret |-> 0, value |-> found[1] # 0]

\* _libconfig_lookup_float, in hundredths.  libconfig's grammar has no NaN.
_libconfig_lookup_float(found, optional, range_min, range_max, parsed_value) ==
    IF found = <<>>
    THEN [ret |-> IF optional THEN 0 ELSE -1, value |-> parsed_value]
    ELSE [ret |-> 0, value |-> clamp_range(found[1], range_min, range_max).value]

\* A lookup that stores its zeroed temporary before it tests libconfig's
\* result: the frame rule of C14 must tell it from the code.
_libconfig_lookup_int_mutant(found, optional, range_min, range_max, parsed_value) ==
    IF found = <<>>
    THEN [ret |-> IF optional THEN 0 ELSE -1, value |-> 0]
    ELSE [ret |-> 0, value |-> clamp_range(found[1], range_min, range_max).value]

\* _libconfig_lookup_int / _libconfig_setting_lookup_int
_libconfig_lookup_int(found, optional, range_min, range_max, parsed_value) ==
    IF found = <<>>
    THEN [ret |-> IF optional THEN 0 ELSE -1, value |-> parsed_value]
    ELSE [ret |-> 0, value |-> clamp_range(found[1], range_min, range_max).value]

\* A lookup that stores the converted value without clamping it: the stored
\* ranges of C16 must tell it from the code.
_libconfig_lookup_uint_mutant(found, optional, range_min, range_max, parsed_value) ==
    IF found = <<>>
    THEN [ret |-> IF optional THEN 0 ELSE -1, value |-> parsed_value]
    ELSE [ret |-> 0, value |-> to_unsigned(found[1])]

\* _libconfig_lookup_uint / _libconfig_setting_lookup_uint: the int found is
\* passed to clamp_range_uint, whose parameter is unsigned.
_libconfig_lookup_uint(found, optional, range_min, range_max, parsed_value) ==
    IF found = <<>>
    THEN [ret |-> IF optional THEN 0 ELSE -1, value |-> parsed_value]
    ELSE [ret |-> 0, value |-> clamp_range(to_unsigned(found[1]), range_min, range_max).value]

\* _libconfig_lookup_string / _libconfig_setting_lookup_string
_libconfig_lookup_string(found, optional, parsed_value) ==
    IF found = <<>>
    THEN [ret |-> IF optional THEN 0 ELSE -1, value |-> parsed_value]
    ELSE [ret |-> 0, value |-> found]

-----------------------------------------------------------------------------
(* Section parsers, as functions of the loaded document.                   *)

\* _parse_generic_settings: every row of setting_map is optional; the rows
\* other than max-keys write dwm globals that no other parser step reads.
_parse_generic_settings(d, max_keys) ==
    LET r == _libconfig_lookup_uint(d.max_keys, TRUE, 1, 10, max_keys) IN
    [ret |-> 0 - r.ret, max_keys |-> r.value]

\* ecalloc( n, size ): an array of n zeroed elements.
RECURSIVE ecalloc(_, _)
ecalloc(n, zero) == IF n = 0 THEN <<>> ELSE Append(ecalloc(n - 1, zero), zero)

\* The loop of _parse_keybinds_config over the list elements: a failed
\* element has its keysym reset to NoSymbol and is counted.
RECURSIVE parse_keybind_list(_, _, _, _, _)

\* A loop that stops at the first element that fails: the independence of
\* the elements in C8 must tell it from the loop of the code.
keybind_element_mutant(r, list, k, max_keys, array, failed) ==
    IF r.ret = -1
    THEN [array |-> [array EXCEPT ![k] = [r.key EXCEPT !.keysym = NoSymbol]],
          failed |-> failed + 1]
    ELSE parse_keybind_list(list, k + 1, max_keys, [array EXCEPT ![k] = r.key], failed)

keybind_element(r, list, k, max_keys, array, failed) ==
    IF r.ret = -1
    THEN parse_keybind_list(list, k + 1, max_keys,
                            [array EXCEPT ![k] = [r.key EXCEPT !.keysym = NoSymbol]],
                            failed + 1)
    ELSE parse_keybind_list(list, k + 1, max_keys, [array EXCEPT ![k] = r.key], failed)

parse_keybind_list(list, k, max_keys, array, failed) ==
    IF k > Len(list) THEN [array |-> array, failed |-> failed]
    ELSE keybind_element(_parse_keybind(list[k], max_keys, array[k]),
                         list, k, max_keys, array, failed)

keybinds_parsed(r, c) ==
    [ret |-> r.failed,
     config |-> [c EXCEPT !.keybind_array = [table |-> "heap", items |-> r.array],
                          !.default_keybinds_loaded = FALSE]]

\* _parse_keybinds_config: the fields of the aggregate it writes, and its
\* return value.
_parse_keybinds_config(d, c) ==
    IF d.keybinds = <<>> THEN [ret |-> 0, config |-> c]
    ELSE IF Len(d.keybinds[1]) = 0
    THEN [ret |-> 1, config |-> [c EXCEPT !.keybind_array_size = 0]]
    ELSE keybinds_parsed(
             parse_keybind_list(d.keybinds[1], 1, c.max_keys,
                                ecalloc(Len(d.keybinds[1]), ZeroKey), 0),
             [c EXCEPT !.keybind_array_size = Len(d.keybinds[1])])

\* The loop of _parse_buttonbinds_config: a failed element has its button
\* reset to 0 and is counted.
RECURSIVE parse_buttonbind_list(_, _, _, _, _)
buttonbind_element(r, list, k, max_keys, array, failed) ==
    IF r.ret = -1
    THEN parse_buttonbind_list(list, k + 1, max_keys,
                               [array EXCEPT ![k] = [r.button EXCEPT !.button = 0]],
                               failed + 1)
    ELSE parse_buttonbind_list(list, k + 1, max_keys, [array EXCEPT ![k] = r.button], failed)

parse_buttonbind_list(list, k, max_keys, array, failed) ==
    IF k > Len(list) THEN [array |-> array, failed |-> failed]
    ELSE buttonbind_element(_parse_buttonbind(list[k], max_keys, array[k]),
                            list, k, max_keys, array, failed)

buttonbinds_parsed(r, c) ==
    [ret |-> r.failed,
     config |-> [c EXCEPT !.buttonbind_array = [table |-> "heap", items |-> r.array],
                          !.default_buttonbinds_loaded = FALSE]]

_parse_buttonbinds_config(d, c) ==
    IF d.buttonbinds = <<>> THEN [ret |-> 0, config |-> c]
    ELSE IF Len(d.buttonbinds[1]) = 0
    THEN [ret |-> 1, config |-> [c EXCEPT !.buttonbind_array_size = 0]]
    ELSE buttonbinds_parsed(
             parse_buttonbind_list(d.buttonbinds[1], 1, c.max_keys,
                                   ecalloc(Len(d.buttonbinds[1]), ZeroButton), 0),
             [c EXCEPT !.buttonbind_array_size = Len(d.buttonbinds[1])])

\* A comparison with strcmp instead of strcasecmp: the any-letter-case rule
\* of C15 must tell it from the code.
is_null_word_mutant(s) == s = "NULL"

\* strcasecmp( tmp_string, "NULL" ) == 0 over the class/instance/title strings used.
is_null_word(s) == s \in {"NULL", "null", "Null"}

\* _parse_rule_string: a string pointer is <<>> (NULL) or <<s>> (an owned copy).
_parse_rule_string(found, parsed_value) ==
    LET r == _libconfig_lookup_string(found, FALSE, <<>>) IN
    IF r.value = <<>> THEN [ret |-> -1, value |-> parsed_value]
    ELSE IF is_null_word(r.value[1]) THEN [ret |-> 0, value |-> <<>>]
    ELSE [ret |-> 0, value |-> r.value]

\* A _parse_rule that adds up the lookups' return values as they are (-1 for
\* each failure): the non-negative counts of C6 must tell it from the code.
_parse_rule_mutant(e, parsed_rule) ==
    LET cl == _parse_rule_string(e.class, parsed_rule.class)
        ins == _parse_rule_string(e.instance, parsed_rule.instance)
        ti == _parse_rule_string(e.title, parsed_rule.title)
        tg == _libconfig_lookup_uint(e.tag_mask, FALSE, 0, TAGMASK, parsed_rule.tags)
        mo == _libconfig_lookup_int(e.monitor, FALSE, -1, 99, parsed_rule.monitor)
        fl == _libconfig_lookup_int(e.floating, FALSE, 0, 1, parsed_rule.isfloating)
    IN  [ret |-> cl.ret + ins.ret + ti.ret + tg.ret + mo.ret + fl.ret,
         rule |-> [class |-> cl.value, instance |-> ins.value, title |-> ti.value,
                   tags |-> tg.value, monitor |-> mo.value, isfloating |-> fl.value]]

\* _parse_rule: the number of failed fields and the Rule as it is left.
_parse_rule(e, parsed_rule) ==
    LET cl == _parse_rule_string(e.class, parsed_rule.class)
        ins == _parse_rule_string(e.instance, parsed_rule.instance)
        ti == _parse_rule_string(e.title, parsed_rule.title)
        tg == _libconfig_lookup_uint(e.tag_mask, FALSE, 0, TAGMASK, parsed_rule.tags)
        mo == _libconfig_lookup_int(e.monitor, FALSE, -1, 99, parsed_rule.monitor)
        fl == _libconfig_lookup_int(e.floating, FALSE, 0, 1, parsed_rule.isfloating)
    IN  [ret |-> 0 - cl.ret - ins.ret - ti.ret - tg.ret - mo.ret - fl.ret,
         rule |-> [class |-> cl.value, instance |-> ins.value, title |-> ti.value,
                   tags |-> tg.value, monitor |-> mo.value, isfloating |-> fl.value]]

\* The preset every allocated Rule gets before it is parsed.
PresetRule == [class |-> <<>>, instance |-> <<>>, title |-> <<>>,
               tags |-> 0, monitor |-> -1, isfloating |-> 0]

RECURSIVE sum_seq(_)
sum_seq(s) == IF s = <<>> THEN 0 ELSE Head(s) + sum_seq(Tail(s))

_parse_rules_config(d, c) ==
    IF d.rules = <<>> THEN [ret |-> 1, config |-> c]
    ELSE LET list == d.rules[1]
             c1 == [c EXCEPT !.rule_array_size = Len(list)]
         IN  IF Len(list) = 0 THEN [ret |-> 0, config |-> c1]
             ELSE LET parsed == [k \in 1..Len(list) |-> _parse_rule(list[k], PresetRule)]
                  IN  [ret |-> sum_seq([k \in 1..Len(list) |-> parsed[k].ret]),
                       config |-> [c1 EXCEPT
                           !.rule_array = [table |-> "heap",
                                           items |-> [k \in 1..Len(list) |-> parsed[k].rule]],
                           !.default_rules_loaded = FALSE]]

\* The tags[] array of config.h has nine names.
LENGTH_tags == 9

\* A string pointer held by a dwm global: heap tells an owned copy from a
\* string literal of config.h.
StaticStr(s) == [heap |-> FALSE, str |-> s]
HeapStr(s) == [heap |-> TRUE, str |-> s]

\* A NULL string pointer, and _estrdup: NULL for NULL, else an owned copy.
NullStr == [heap |-> FALSE, str |-> NULL]
_estrdup(p) == IF p = NullStr THEN NullStr ELSE HeapStr(p.str)

\* A tags parser that puts a filler name into the slot of an element it could
\* not read: the frame rule of C17 must tell it from the code.
_parse_tags_config_mutant(d, tg) ==
    IF d.tag_names = <<>> THEN [ret |-> 1, tags |-> tg]
    ELSE LET list == d.tag_names[1]
             tags_count == IF Len(list) > LENGTH_tags THEN LENGTH_tags ELSE Len(list)
         IN  IF Len(list) = 0 THEN [ret |-> 0, tags |-> tg]
             ELSE [ret |-> Cardinality({k \in 1..tags_count : list[k] = <<>>}),
                   tags |-> [k \in 1..LENGTH_tags |->
                               IF k > tags_count THEN tg[k]
                               ELSE IF list[k] # <<>> THEN HeapStr(list[k][1])
                               ELSE HeapStr("filler")]]

\* _parse_tags_config: the tags[] array as it is left, and the failure count.
_parse_tags_config(d, tg) ==
    IF d.tag_names = <<>> THEN [ret |-> 1, tags |-> tg]
    ELSE LET list == d.tag_names[1]
             tags_count == IF Len(list) > LENGTH_tags THEN LENGTH_tags ELSE Len(list)
         IN  IF Len(list) = 0 THEN [ret |-> 0, tags |-> tg]
             ELSE [ret |-> Cardinality({k \in 1..tags_count : list[k] = <<>>}),
                   tags |-> [k \in 1..LENGTH_tags |->
                               IF k <= tags_count /\ list[k] # <<>>
                               THEN HeapStr(list[k][1]) ELSE tg[k]]]

\* theme_map has seven rows: font, then normal and selected fg/bg/border.
LENGTH_theme_map == 7

\* A theme parser whose lookups are optional, so that an omitted row is no
\* failure: the count of C19 must tell it from the code.
_parse_theme_mutant(e, th) ==
    [ret |-> 0,
     theme |-> [k \in 1..LENGTH_theme_map |->
                  IF e[k] # <<>> THEN HeapStr(e[k][1]) ELSE th[k]]]

\* _parse_theme: every row is looked up as a required string.
_parse_theme(e, th) ==
    LET looked == [k \in 1..LENGTH_theme_map |-> _libconfig_lookup_string(e[k], FALSE, <<>>)]
    IN  [ret |-> Cardinality({k \in 1..LENGTH_theme_map : looked[k].ret # 0}),
         theme |-> [k \in 1..LENGTH_theme_map |->
                      IF looked[k].ret = 0 THEN HeapStr(looked[k].value[1]) ELSE th[k]]]

\* A themes parser that consults the last element of the list: the
\* first-element rule of C18 must tell it from the code.
_parse_theme_config_mutant(d, th) ==
    IF d.themes = <<>> THEN [ret |-> 1, theme |-> th]
    ELSE LET list == d.themes[1] IN
         IF Len(list) = 0 THEN [ret |-> 0, theme |-> th]
         ELSE _parse_theme(list[Len(list)], th)

_parse_theme_config(d, th) ==
    IF d.themes = <<>> THEN [ret |-> 1, theme |-> th]
    ELSE LET list == d.themes[1] IN
         IF Len(list) = 0 THEN [ret |-> 0, theme |-> th]
         ELSE _parse_theme(list[1], th)

-----------------------------------------------------------------------------
(* The environment and the candidate files.                                *)

CfgHome == "/h/.config"
DataHome == "/h/.local/share"
CliOwnPath == "/tmp/my.conf"
SystemFallbackPath == "/etc/dwm/dwm.conf"

\* _get_xdg_config_home / _get_xdg_data_home: NULL when neither the XDG
\* variable nor HOME is set.  The CLI path is whatever -c named, which may be
\* the system file itself.
Envs == [cli : {NULL, CliOwnPath, SystemFallbackPath},
         config_home : {NULL, CfgHome},
         data_home : {NULL, DataHome}]

\* The locals config_top_directory, config_sub_directory, config_backup and
\* config_fallback of _open_config.
config_top_directory(e) == IF e.config_home = NULL THEN NULL ELSE e.config_home \o "/dwm.conf"
config_sub_directory(e) == IF e.config_home = NULL THEN NULL ELSE e.config_home \o "/dwm/dwm.conf"
config_backup(e) == IF e.data_home = NULL THEN NULL ELSE e.data_home \o "/dwm/dwm_last.conf"
config_fallback == SystemFallbackPath

\* A candidate array that probes the system file before the user's files:
\* the probing order of C1 must tell it from the array of the code.
candidate_filepaths_mutant(e) ==
    <<config_fallback>>
    \o (IF e.cli # NULL THEN <<e.cli>> ELSE <<>>)
    \o (IF config_top_directory(e) # NULL THEN <<config_top_directory(e)>> ELSE <<>>)
    \o (IF config_sub_directory(e) # NULL THEN <<config_sub_directory(e)>> ELSE <<>>)
    \o (IF config_backup(e) # NULL THEN <<config_backup(e)>> ELSE <<>>)

\* The array config_filepaths[] as _open_config fills it.
candidate_filepaths(e) ==
    (IF e.cli # NULL THEN <<e.cli>> ELSE <<>>)
    \o (IF config_top_directory(e) # NULL THEN <<config_top_directory(e)>> ELSE <<>>)
    \o (IF config_sub_directory(e) # NULL THEN <<config_sub_directory(e)>> ELSE <<>>)
    \o (IF config_backup(e) # NULL THEN <<config_backup(e)>> ELSE <<>>)
    \o <<config_fallback>>

Range(s) == { s[k] : k \in DOMAIN s }

\* What fopen and config_read make of a file: "missing" cannot be opened,
\* "bad" opens but does not parse, "good" opens and parses.
FileStates == {"missing", "bad", "good"}

\* The built-in tables of config.h: the aggregate points at them until a
\* section is parsed.  Their lengths are those of the stock tables.
LENGTH_rules == 2
LENGTH_keys == 5
LENGTH_buttons == 3

StaticTable(name) == [table |-> name, items |-> <<>>]

\* The string literals tags[], fonts[0] and colors[][] start with.
DefaultTags ==
    [k \in 1..LENGTH_tags |-> StaticStr(<<"1", "2", "3", "4", "5", "6", "7", "8", "9">>[k])]
DefaultTheme ==
    [k \in 1..LENGTH_theme_map |->
        StaticStr(<<"monospace:size=10", "#bbbbbb", "#222222", "#444444",
                    "#eeeeee", "#005577", "#005577">>[k])]

\* Configuration dwm_config = { 0 }, with the -c path main() stored in it.
ZeroConfig(cli) ==
    [fallback_config_loaded |-> FALSE,
     default_keybinds_loaded |-> FALSE,
     default_buttonbinds_loaded |-> FALSE,
     default_rules_loaded |-> FALSE,
     max_keys |-> 0,
     rule_array_size |-> 0,
     buttonbind_array_size |-> 0,
     keybind_array_size |-> 0,
     config_filepath |-> cli,
     rule_array |-> StaticTable(NULL),
     keybind_array |-> StaticTable(NULL),
     buttonbind_array |-> StaticTable(NULL),
     libconfig_config |-> [file |-> NULL]]

NoBackup == [called |-> FALSE, mkdir |-> "none", write |-> "none"]

-----------------------------------------------------------------------------
(* parse_config, step by step.                                             *)

\* _load_default_config.  pc is "start" when parse_config was called with the
\* address of the aggregate and "start_null" when it was called with NULL:
\* then the function logs and calls exit( EXIT_FAILURE ).
load_default_config ==
    /\ pc \in {"start", "start_null"}
    /\ IF pc = "start_null"
       THEN /\ pc' = "exited"
            /\ UNCHANGED <<config, theme>>
       ELSE /\ config' = [config EXCEPT
                            !.max_keys = 4,
                            !.fallback_config_loaded = FALSE,
                            !.default_rules_loaded = TRUE,
                            !.rule_array_size = LENGTH_rules,
                            !.rule_array = StaticTable("rules"),
                            !.default_keybinds_loaded = TRUE,
                            !.keybind_array_size = LENGTH_keys,
                            !.keybind_array = StaticTable("keys"),
                            !.default_buttonbinds_loaded = TRUE,
                            !.buttonbind_array_size = LENGTH_buttons,
                            !.buttonbind_array = StaticTable("buttons"),
                            !.libconfig_config = [file |-> NULL]]
            /\ theme' = [k \in 1..LENGTH_theme_map |-> _estrdup(theme[k])]
            /\ pc' = "open"
    /\ UNCHANGED <<env, fs, doc, config_filepaths, idx, opened, returned,
                   total_errors, backup, ret, tags, bind_in, bind_out,
                   parses, freed>>

\* _open_config up to its loop: the candidate array is built and the CLI
\* path is moved out of the aggregate.
open_config_begin ==
    /\ pc = "open"
    /\ config_filepaths' = candidate_filepaths([env EXCEPT !.cli = config.config_filepath])
    /\ config' = [config EXCEPT !.config_filepath = NULL]
    /\ idx' = 1
    /\ pc' = "probe"
    /\ UNCHANGED <<env, fs, doc, opened, returned, total_errors, backup, ret,
                   tags, theme, bind_in, bind_out,
                   parses, freed>>

\* strcmp( path, other ) == 0.  With other NULL the call is undefined: the
\* process may be killed, or the comparison may come out either way.
strcmp_outcomes(path, other) ==
    IF other = NULL THEN {"crash", "equal", "differ"}
    ELSE IF path = other THEN {"equal"} ELSE {"differ"}

\* One iteration of _open_config's loop.
open_config_probe ==
    /\ pc = "probe"
    /\ idx <= Len(config_filepaths)
    /\ LET path == config_filepaths[idx] IN
       /\ opened' = Append(opened, path)
       /\ IF fs[path] # "good"
          THEN /\ idx' = idx + 1
               /\ UNCHANGED <<pc, config>>
          ELSE \E o1 \in strcmp_outcomes(path, config_backup(env)) :
                 LET c1 == [config EXCEPT !.config_filepath = path,
                                          !.libconfig_config = [file |-> path]]
                     is_fallback == o1 = "equal" \/ path = config_fallback
                 IN  /\ idx' = idx
                     /\ IF o1 = "crash"
                        THEN /\ pc' = "crashed"
                             /\ config' = c1
                        ELSE /\ pc' = "generic"
                             /\ config' = IF is_fallback
                                          THEN [c1 EXCEPT !.fallback_config_loaded = TRUE]
                                          ELSE c1
    /\ UNCHANGED <<env, fs, doc, config_filepaths, returned, total_errors, backup,
                   ret, tags, theme, bind_in, bind_out,
                   parses, freed>>

\* A parse_config that ignores _open_config's failure and goes on to the
\* section parsers: C5 must tell it from the return of the code.
open_config_fail_mutant ==
    /\ pc = "probe"
    /\ idx > Len(config_filepaths)
    /\ pc' = "generic"
    /\ UNCHANGED <<env, fs, doc, config, config_filepaths, idx, opened, returned,
                   total_errors, backup, ret, tags, theme, bind_in, bind_out,
                   parses, freed>>

\* _open_config after the loop found nothing: parse_config returns -1.
open_config_fail ==
    /\ pc = "probe"
    /\ idx > Len(config_filepaths)
    /\ ret' = -1
    /\ pc' = "done"
    /\ UNCHANGED <<env, fs, doc, config, config_filepaths, idx, opened, returned,
                   total_errors, backup, tags, theme, bind_in, bind_out,
                   parses, freed>>

\* An accumulation that assigns where the code adds: the zero result of C4
\* must tell it from the accumulation of the code.
section_returns_mutant(n) ==
    /\ returned' = Append(returned, n)
    /\ total_errors' = n

\* A section parser's return value is added to total_errors.
section_returns(n) ==
    /\ returned' = Append(returned, n)
    /\ total_errors' = total_errors + n

parse_generic_settings ==
    /\ pc = "generic"
    /\ LET r == _parse_generic_settings(doc, config.max_keys) IN
       /\ config' = [config EXCEPT !.max_keys = r.max_keys]
       /\ section_returns(r.ret)
    /\ pc' = "keybinds"
    /\ UNCHANGED <<env, fs, doc, config_filepaths, idx, opened, backup, ret,
                   tags, theme, bind_in, bind_out,
                   parses, freed>>

parse_keybinds_config ==
    /\ pc = "keybinds"
    /\ LET r == _parse_keybinds_config(doc, config) IN
       /\ config' = r.config
       /\ section_returns(r.ret)
    /\ pc' = "buttonbinds"
    /\ UNCHANGED <<env, fs, doc, config_filepaths, idx, opened, backup, ret,
                   tags, theme, bind_in, bind_out,
                   parses, freed>>

parse_buttonbinds_config ==
    /\ pc = "buttonbinds"
    /\ LET r == _parse_buttonbinds_config(doc, config) IN
       /\ config' = r.config
       /\ section_returns(r.ret)
    /\ pc' = "rules"
    /\ UNCHANGED <<env, fs, doc, config_filepaths, idx, opened, backup, ret,
                   tags, theme, bind_in, bind_out,
                   parses, freed>>

parse_rules_config ==
    /\ pc = "rules"
    /\ LET r == _parse_rules_config(doc, config) IN
       /\ config' = r.config
       /\ section_returns(r.ret)
    /\ pc' = "tags"
    /\ UNCHANGED <<env, fs, doc, config_filepaths, idx, opened, backup, ret,
                   tags, theme, bind_in, bind_out,
                   parses, freed>>

parse_tags_config ==
    /\ pc = "tags"
    /\ LET r == _parse_tags_config(doc, tags) IN
       /\ tags' = r.tags
       /\ section_returns(r.ret)
    /\ pc' = "theme"
    /\ UNCHANGED <<env, fs, doc, config, config_filepaths, idx, opened, backup, ret,
                   theme, bind_in, bind_out,
                   parses, freed>>

parse_theme_config ==
    /\ pc = "theme"
    /\ LET r == _parse_theme_config(doc, theme) IN
       /\ theme' = r.theme
       /\ section_returns(r.ret)
    /\ pc' = "finish"
    /\ UNCHANGED <<env, fs, doc, config, config_filepaths, idx, opened, backup, ret,
                   tags, bind_in, bind_out,
                   parses, freed>>

\* A backup condition that forgets the built-in binding tables: the backup
\* rule of C3 must tell it from the condition of the code.
backup_wanted_mutant(errors, c) ==
    /\ errors = 0
    /\ ~c.fallback_config_loaded

\* parse_config's condition for calling _backup_config.
backup_wanted(errors, c) ==
    /\ errors = 0
    /\ ~(c.default_keybinds_loaded \/ c.default_buttonbinds_loaded \/ c.fallback_config_loaded)

\* _backup_config: without a data directory nothing is written; otherwise
\* _make_directory_path finds the directory ("exists"), makes it ("created")
\* or fails, its result is ignored and config_write_file is called, which
\* fails when the directory could not be made.
backup_config ==
    IF config_backup(env) = NULL
    THEN /\ backup' = [called |-> TRUE, mkdir |-> "none", write |-> "none"]
         /\ fs' = fs
    ELSE \E made \in {"exists", "created", "failed"} :
           \E written \in (IF made = "failed" THEN {"failed"} ELSE {"ok", "failed"}) :
             /\ backup' = [called |-> TRUE, mkdir |-> made, write |-> written]
             /\ fs' = IF written = "ok"
                      THEN [fs EXCEPT ![config_backup(env)] = "good"]
                      ELSE fs

\* The end of parse_config: the backup decision and the return.
parse_config_finish ==
    /\ pc = "finish"
    /\ IF backup_wanted(total_errors, config)
       THEN backup_config
       ELSE UNCHANGED <<backup, fs>>
    /\ ret' = total_errors
    /\ pc' = "done"
    /\ UNCHANGED <<env, doc, config, config_filepaths, idx, opened, returned,
                   total_errors, tags, theme, bind_in, bind_out,
                   parses, freed>>

-----------------------------------------------------------------------------
(* The documents and setups explored.                                      *)

\* The longest keybinds / buttonbinds list in a document.
MaxBinds == 2

RECURSIVE SeqsUpTo(_, _)
SeqsUpTo(S, n) ==
    IF n = 0 THEN {<<>>}
    ELSE LET shorter == SeqsUpTo(S, n - 1) IN
         shorter \cup { Append(s, x) : s \in { t \in shorter : Len(t) = n - 1 }, x \in S }

KeyLineOk == <<"super", "+", "Shift", "+", "q", ",", " ", "killclient">>
KeyLineBad == <<"alt", "+", "F1", ",">>
KeyLineSpawn == <<"super", "+", "Return", ",", "spawn", ",", " ", "st", " ", "-e">>
KeyLines == {KeyLineOk, KeyLineBad, KeyLineSpawn}

ButtonLineOk == <<"super", "+", "leftclick", ",", " ", "client", ",", " ", "movemouse">>
ButtonLineBad == <<"1", ",", "bogus", ",", "quit">>
ButtonLines == {ButtonLineOk, ButtonLineBad}

RuleFull == [class |-> <<"Gimp">>, instance |-> <<"null">>, title |-> <<"NULL">>,
             tag_mask |-> <<0>>, monitor |-> <<-1>>, floating |-> <<1>>]
RuleNoTitle == [RuleFull EXCEPT !.title = <<>>]
RuleWide == [class |-> <<"Firefox">>, instance |-> <<>>, title |-> <<"Null">>,
             tag_mask |-> <<-1>>, monitor |-> <<100>>, floating |-> <<2>>]

ThemeFull == [k \in 1..LENGTH_theme_map |-> <<"#123456">>]
ThemeNoFont == [ThemeFull EXCEPT ![1] = <<>>]
ThemeOther == [k \in 1..LENGTH_theme_map |-> <<"#abcdef">>]

TenTagNames == [k \in 1..(LENGTH_tags + 1) |-> <<"t">>]

\* What each section of a document may hold: <<>> when the section is
\* missing, <<list>> when it is there.
SectionChoices(s) ==
    CASE s = "max_keys" -> {<<>>, <<-3>>, <<1>>, <<12>>}
      [] s = "keybinds" -> {<<>>} \cup { <<l>> : l \in SeqsUpTo(KeyLines, MaxBinds) }
      [] s = "buttonbinds" -> {<<>>} \cup { <<l>> : l \in SeqsUpTo(ButtonLines, MaxBinds) }
      [] s = "rules" -> {<<>>, << <<>> >>, << <<RuleFull>> >>, << <<RuleNoTitle>> >>,
                         << <<RuleFull, RuleWide>> >>}
      [] s = "tag_names" -> {<<>>, << <<>> >>, << << <<"web">>, <<"dev">> >> >>,
                             << << <<"web">>, <<>> >> >>, <<TenTagNames>>}
      [] s = "themes" -> {<<>>, << <<>> >>, << <<ThemeFull>> >>, << <<ThemeNoFont>> >>,
                          << <<ThemeFull, ThemeOther>> >>,
                          << <<ThemeNoFont, ThemeOther>> >>}

SectionNames == {"max_keys", "keybinds", "buttonbinds", "rules", "tag_names", "themes"}

\* A complete document that parses without a failure.
BaseDoc == [max_keys |-> <<>>,
            keybinds |-> << <<KeyLineOk>> >>,
            buttonbinds |-> << <<ButtonLineOk>> >>,
            rules |-> << <<RuleFull>> >>,
            tag_names |-> << << <<"web">>, <<"dev">> >> >>,
            themes |-> << <<ThemeFull>> >>]

\* The documents that differ from BaseDoc in at most two sections.
Docs ==
    { [[BaseDoc EXCEPT ![s1] = v1] EXCEPT ![s2] = v2] :
        <<s1, v1, s2, v2>> \in
            { q \in UNION { {s} \X SectionChoices(s) \X {t} \X SectionChoices(t) :
                              <<s, t>> \in SectionNames \X SectionNames } : TRUE } }

CoreDocs == {BaseDoc,
             [BaseDoc EXCEPT !.keybinds = <<>>],
             [BaseDoc EXCEPT !.keybinds = << <<KeyLineBad>> >>]}

\* Every environment with every state of its candidate files.
Setups ==
    UNION { { [env |-> e, fs |-> f] : f \in [Range(candidate_filepaths(e)) -> FileStates] } :
            e \in Envs }

\* The setups with -c naming the user's own file, the configuration
\* directory resolved, no unparsable file and at most one file present.
CoreSetups ==
    { s \in Setups :
        /\ s.env.cli = CliOwnPath
        /\ s.env.config_home # NULL
        /\ \A p \in DOMAIN s.fs : s.fs[p] # "bad"
        /\ Cardinality({ p \in DOMAIN s.fs : s.fs[p] = "good" }) <= 1 }

NoBind == [kind |-> "none", line |-> <<>>, max_keys |-> 0]
NoBindOut == [ret |-> 0, key |-> ZeroKey, button |-> ZeroButton]

\* Every setup with a core document, and every document in a core setup.
Init ==
    \E x \in (Setups \X CoreDocs) \cup (CoreSetups \X Docs) :
        /\ \/ pc = "start"
           \/ pc = "start_null" /\ x[1] \in CoreSetups /\ x[2] = BaseDoc
        /\ env = x[1].env
        /\ fs = x[1].fs
        /\ doc = x[2]
        /\ config = ZeroConfig(x[1].env.cli)
        /\ config_filepaths = <<>>
        /\ idx = 0
        /\ opened = <<>>
        /\ returned = <<>>
        /\ total_errors = 0
        /\ backup = NoBackup
        /\ ret = 0
        /\ tags = DefaultTags
        /\ theme = DefaultTheme
        /\ bind_in = NoBind
        /\ bind_out = NoBindOut
        /\ parses = 1
        /\ freed = {}

Next ==
    \/ load_default_config
    \/ open_config_begin
    \/ open_config_probe
    \/ open_config_fail
    \/ parse_generic_settings
    \/ parse_keybinds_config
    \/ parse_buttonbinds_config
    \/ parse_rules_config
    \/ parse_tags_config
    \/ parse_theme_config
    \/ parse_config_finish

Spec == Init /\ [][Next]_vars

-----------------------------------------------------------------------------
(* The binding grammar on its own: _parse_keybind and _parse_buttonbind    *)
(* applied to single lines.                                                *)

\* The longest modifier chain of a composed line, the largest max_keys tried,
\* and the most comma-separated fields of a raw line.
MaxMods == 2
MaxKeys == 3
MaxFields == 5

\* The words a composed line is built from.
ModifierWords == {"super", "Shift", "bogus"}
KeyWords == {"q", "Q", "nokey"}
ButtonWords == {"LeftClick", "1", "256", "nobutton"}
ClickWords == {"client", "TAG", "noclick"}
ActionWords == {"KillClient", "tag", "setmfact", "spawn", "nofunc"}
ArgumentTokens == {<<>>, <<"5">>, <<"5x">>, <<"0.5">>, <<"600">>}

\* "m1+m2+trigger", with blanks around the "+" when padded.
RECURSIVE chain_lexemes(_, _)
chain_lexemes(words, padded) ==
    IF Len(words) = 1 THEN <<words[1]>>
    ELSE <<words[1]>> \o (IF padded THEN <<" ", "+", " ">> ELSE <<"+">>)
         \o chain_lexemes(Tail(words), padded)

\* "chain, [click,] action[, arg]" as a lexeme line.
composed_line(kind, mods, trigger, click, action, arg, padded) ==
    LET sep == IF padded THEN <<",", " ">> ELSE <<",">> IN
    chain_lexemes(Append(mods, trigger), padded)
    \o (IF kind = "button" THEN sep \o <<click>> ELSE <<>>)
    \o sep \o <<action>>
    \o (IF arg # <<>> THEN sep \o arg ELSE <<>>)

\* Raw fields joined by commas.
RECURSIVE join_fields(_)
join_fields(fields) ==
    IF Len(fields) = 1 THEN fields[1]
    ELSE fields[1] \o <<",">> \o join_fields(Tail(fields))

KeyFields == {<<>>, <<" ">>, <<"super", "+", "q">>, <<"killclient">>, <<"tag">>, <<" ", "5">>}
ButtonFields == {<<>>, <<" ">>, <<"1">>, <<"client">>, <<"quit">>, <<" ", "5">>}

composed_bind(kind, mods, trigger, click, action, arg, padded, mk) ==
    [kind |-> kind, form |-> "composed", max_keys |-> mk,
     line |-> composed_line(kind, mods, trigger, click, action, arg, padded),
     mods |-> mods, trigger |-> trigger, click |-> click, action |-> action,
     arg |-> arg, fields |-> <<>>]

ComposedBinds ==
    { composed_bind(x[1][1], x[1][2], x[1][3], x[1][4], x[2], x[3], x[4], x[5]) :
        x \in (({"key"} \X SeqsUpTo(ModifierWords, MaxMods) \X KeyWords \X {"client"})
               \cup ({"button"} \X SeqsUpTo(ModifierWords, MaxMods) \X ButtonWords \X ClickWords))
              \X ActionWords \X ArgumentTokens \X BOOLEAN \X (1..MaxKeys) }

FieldBinds ==
    { [kind |-> kf[1], form |-> "fields", max_keys |-> 4,
       line |-> join_fields(kf[2]),
       mods |-> <<>>, trigger |-> "", click |-> "", action |-> "",
       arg |-> <<>>, fields |-> kf[2]] :
        kf \in ({"key"} \X (SeqsUpTo(KeyFields, MaxFields) \ {<<>>}))
               \cup ({"button"} \X (SeqsUpTo(ButtonFields, MaxFields) \ {<<>>})) }

\* Lines whose first field is a "+"-joined chain of up to MaxChain tokens, some
\* of them blank, followed by fields that resolve.
MaxChain == 3

RECURSIVE join_tokens(_)
join_tokens(toks) ==
    IF Len(toks) = 1 THEN toks[1]
    ELSE toks[1] \o <<"+">> \o join_tokens(Tail(toks))

ChainBinds ==
    { [kind |-> x[1], form |-> "chain", max_keys |-> x[3],
       line |-> join_tokens(x[2])
                \o (IF x[1] = "key" THEN <<",", " ", "killclient">>
                    ELSE <<",", " ", "client", ",", " ", "killclient">>),
       mods |-> <<>>, trigger |-> "", click |-> "", action |-> "",
       arg |-> <<>>, fields |-> <<join_tokens(x[2])>>] :
        x \in {"key", "button"} \X (SeqsUpTo({<<"super">>, <<"q">>, <<"1">>, <<" ">>}, MaxChain) \ {<<>>}) \X (1..MaxKeys) }

\* Key lines with an integer action and arguments inside and outside its
\* range, with the key alone or after a modifier, under the default max_keys.
ArgumentBinds ==
    { composed_bind("key", x[1], x[2], "client", x[3], x[4], x[5], 4) :
        x \in {<<>>, <<"super">>} \X {"q", "super"} \X {"tag", "focusmon"}
              \X {<<"5">>, <<"-1">>, <<"-7">>, <<"0">>, <<"255">>, <<"600">>} \X BOOLEAN }

\* Button lines that differ in the click field alone: every name of the click
\* table and other names, in several letter cases.
ClickBinds ==
    { composed_bind("button", <<>>, "1", x[1], "quit", <<>>, x[2], 4) :
        x \in {"tag", "TAG", "layout", "Layout", "status", "STATUS", "title", "Title",
               "client", "Client", "window", "WINDOW", "desktop", "DeskTop",
               "noclick", "root", "bar"} \X BOOLEAN }

\* Calls of the five clamp functions: inputs up to one step outside the span
\* of the limits, every min <= max, unsigned types without negative values,
\* floats with NaN among the inputs.  Values of every type are written as
\* Float records; the integer functions work on the val field.
ClampSpan == 2
Float(n) == [nan |-> FALSE, val |-> n]
NaN == [nan |-> TRUE, val |-> 0]

ClampCalls ==
    { [kind |-> x[1], form |-> "clamp", input |-> Float(x[2]),
       min |-> Float(x[3]), max |-> Float(x[4])] :
        x \in { y \in {"int", "long"} \X ((0 - ClampSpan - 1)..(ClampSpan + 1))
                      \X ((0 - ClampSpan)..ClampSpan) \X ((0 - ClampSpan)..ClampSpan) :
                  y[3] <= y[4] }
          \cup { y \in {"uint", "ulong"} \X (0..(ClampSpan + 1))
                      \X (0..ClampSpan) \X (0..ClampSpan) : y[3] <= y[4] } }
    \cup
    { [kind |-> "float", form |-> "clamp", input |-> x[1],
       min |-> Float(x[2]), max |-> Float(x[3])] :
        x \in { y \in ({NaN} \cup { Float(n) : n \in (0 - ClampSpan - 1)..(ClampSpan + 1) })
                      \X ((0 - ClampSpan)..ClampSpan) \X ((0 - ClampSpan)..ClampSpan) :
                  y[2] <= y[3] } }

\* Calls of the typed lookups: the key missing or of the wrong type (found is
\* <<>>) or found, optional or required, a range, and the value the destination
\* held before.  A value has a number and a string; each lookup uses its own.
LookupCalls ==
    { [kind |-> x[1], form |-> "lookup", found |-> x[2], optional |-> x[3],
       range_min |-> x[4][1], range_max |-> x[4][2], prior |-> x[5]] :
        x \in {"bool", "int", "uint", "float", "string"}
              \X ({<<>>} \cup { <<[num |-> n, str |-> "doc"]>> : n \in {-3, 0, 1, 5, 12} })
              \X BOOLEAN
              \X {<<1, 10>>, <<-1, 5>>}
              \X {[num |-> 0, str |-> "preset"], [num |-> 4, str |-> "preset"]} }

InitBind ==
    /\ \/ bind_in \in ComposedBinds
       \/ bind_in \in FieldBinds
       \/ bind_in \in ChainBinds
       \/ bind_in \in ArgumentBinds
       \/ bind_in \in ClickBinds
       \/ bind_in \in ClampCalls
       \/ bind_in \in LookupCalls
    /\ bind_out = NoBindOut
    /\ pc = IF bind_in.form \in {"clamp", "lookup"} THEN bind_in.form ELSE "bind"
    /\ env = [cli |-> NULL, config_home |-> NULL, data_home |-> NULL]
    /\ fs = [p \in {SystemFallbackPath} |-> "missing"]
    /\ doc = BaseDoc
    /\ config = ZeroConfig(NULL)
    /\ config_filepaths = <<>>
    /\ idx = 0
    /\ opened = <<>>
    /\ returned = <<>>
    /\ total_errors = 0
    /\ backup = NoBackup
    /\ ret = 0
    /\ tags = DefaultTags
    /\ theme = DefaultTheme
    /\ parses = 0
    /\ freed = {}

\* One call of _parse_keybind on a zeroed Key.
parse_keybind_line ==
    /\ pc = "bind"
    /\ bind_in.kind = "key"
    /\ LET r == _parse_keybind(bind_in.line, bind_in.max_keys, ZeroKey) IN
       bind_out' = [bind_out EXCEPT !.ret = r.ret, !.key = r.key]
    /\ pc' = "bound"
    /\ UNCHANGED <<env, fs, doc, config, config_filepaths, idx, opened, returned,
                   total_errors, backup, ret, tags, theme, bind_in,
                   parses, freed>>

\* One call of _parse_buttonbind on a zeroed Button.
parse_buttonbind_line ==
    /\ pc = "bind"
    /\ bind_in.kind = "button"
    /\ LET r == _parse_buttonbind(bind_in.line, bind_in.max_keys, ZeroButton) IN
       bind_out' = [bind_out EXCEPT !.ret = r.ret, !.button = r.button]
    /\ pc' = "bound"
    /\ UNCHANGED <<env, fs, doc, config, config_filepaths, idx, opened, returned,
                   total_errors, backup, ret, tags, theme, bind_in,
                   parses, freed>>

\* One call of clamp_range_<kind>: first on the input, then on its own result.
clamp_range_call ==
    /\ pc \in {"clamp", "clamped"}
    /\ LET input == IF pc = "clamp" THEN bind_in.input ELSE bind_out[1].value
           r == IF bind_in.kind = "float"
                THEN clamp_range_float(input, bind_in.min, bind_in.max)
                ELSE LET c == clamp_range(input.val, bind_in.min.val, bind_in.max.val)
                     IN  [value |-> Float(c.value), warned |-> c.warned]
       IN  bind_out' = IF pc = "clamp" THEN <<r>> ELSE Append(bind_out, r)
    /\ pc' = IF pc = "clamp" THEN "clamped" ELSE "reclamped"
    /\ UNCHANGED <<env, fs, doc, config, config_filepaths, idx, opened, returned,
                   total_errors, backup, ret, tags, theme, bind_in,
                   parses, freed>>

\* One call of _libconfig_lookup_<kind>; the destination holds prior.
libconfig_lookup_call ==
    /\ pc = "lookup"
    /\ LET c == bind_in
           number == IF c.found = <<>> THEN <<>> ELSE <<c.found[1].num>>
           r == CASE c.kind = "bool" ->
                       _libconfig_lookup_bool(number, c.optional, c.prior.num # 0)
                  [] c.kind = "int" ->
                       _libconfig_lookup_int(number, c.optional, c.range_min,
                                             c.range_max, c.prior.num)
                  [] c.kind = "uint" ->
                       _libconfig_lookup_uint(number, c.optional, c.range_min,
                                              c.range_max, c.prior.num)
                  [] c.kind = "float" ->
                       _libconfig_lookup_float(number, c.optional, c.range_min,
                                               c.range_max, c.prior.num)
                  [] OTHER ->
                       _libconfig_lookup_string(
                           IF c.found = <<>> THEN <<>> ELSE <<c.found[1].str>>,
                           c.optional, <<c.prior.str>>)
       IN  bind_out' = [ret |-> r.ret, written |-> <<r.value>>]
    /\ pc' = "looked"
    /\ UNCHANGED <<env, fs, doc, config, config_filepaths, idx, opened, returned,
                   total_errors, backup, ret, tags, theme, bind_in,
                   parses, freed>>

NextBind ==
    \/ parse_keybind_line
    \/ parse_buttonbind_line
    \/ clamp_range_call
    \/ libconfig_lookup_call

SpecBind == InitBind /\ [][NextBind]_vars

-----------------------------------------------------------------------------
(* config_cleanup, and parse_config called again on the same aggregate.    *)

\* How many times parse_config is called on the aggregate.
MaxParses == 2

\* A release loop that skips the elements marked invalid: the payloads of
\* C24 must tell it from the loop of the code.
freed_bind_array_mutant(what, array) ==
    { [what |-> what \o ".arg.v", at |-> k, heap |-> TRUE] :
        k \in { j \in DOMAIN array.items :
                  /\ array.items[j].argument_type = ARG_TYPE_POINTER
                  /\ array.items[j].arg.v # <<>>
                  /\ what = "keybind_array" => array.items[j].keysym # NoSymbol } }
    \cup {[what |-> what, at |-> 0, heap |-> array.table = "heap"]}

\* The pointers released for a binding array: arg.v of every element whose
\* argument_type is ARG_TYPE_POINTER, then the array.
freed_bind_array(what, array) ==
    { [what |-> what \o ".arg.v", at |-> k, heap |-> TRUE] :
        k \in { j \in DOMAIN array.items :
                  /\ array.items[j].argument_type = ARG_TYPE_POINTER
                  /\ array.items[j].arg.v # <<>> } }
    \cup {[what |-> what, at |-> 0, heap |-> array.table = "heap"]}

\* Every pointer a complete run of config_cleanup hands to free(): the
\* recorded path, every tags[] and colors[][] entry that is not NULL, and for
\* each table that is not the built-in one its strings and, for the binding
\* tables, the array.  fonts[0] and rule_array are not among them.
cleanup_pointers(c, tg, th) ==
    (IF c.config_filepath = NULL THEN {}
     ELSE {[what |-> "config_filepath", at |-> 0, heap |-> TRUE]})
    \cup { [what |-> "tags", at |-> k, heap |-> tg[k].heap] :
             k \in { j \in 1..LENGTH_tags : tg[j] # NullStr } }
    \cup { [what |-> "colors", at |-> k, heap |-> th[k].heap] :
             k \in { j \in 2..LENGTH_theme_map : th[j] # NullStr } }
    \cup (IF c.default_rules_loaded THEN {}
          ELSE { [what |-> x[1], at |-> x[2], heap |-> TRUE] :
                   x \in { y \in {"rule.class", "rule.instance", "rule.title"}
                                 \X DOMAIN c.rule_array.items :
                             \/ y[1] = "rule.class" /\ c.rule_array.items[y[2]].class # <<>>
                             \/ y[1] = "rule.instance" /\ c.rule_array.items[y[2]].instance # <<>>
                             \/ y[1] = "rule.title" /\ c.rule_array.items[y[2]].title # <<>> } })
    \cup (IF c.default_keybinds_loaded THEN {}
          ELSE freed_bind_array("keybind_array", c.keybind_array))
    \cup (IF c.default_buttonbinds_loaded THEN {}
          ELSE freed_bind_array("buttonbind_array", c.buttonbind_array))

\* config_cleanup.  free() of a pointer that malloc did not return (a string
\* literal of config.h still in tags[]) is undefined: the process may be
\* killed at the first such pointer, or the call may go on.  SAFE_FREE sets
\* what it released to NULL, config_destroy closes the document.
config_cleanup ==
    /\ pc = "done"
    /\ LET statics == { k \in 1..LENGTH_tags : tags[k] # NullStr /\ ~tags[k].heap } IN
       \/ /\ statics # {}
          /\ pc' = "crashed"
          /\ freed' = { p \in cleanup_pointers(config, tags, theme) :
                         p.what = "config_filepath" }
                      \cup { [what |-> "tags", at |-> k, heap |-> tags[k].heap] :
                               k \in 1..first_match(statics) }
          /\ config' = [config EXCEPT !.config_filepath = NULL]
          /\ tags' = [k \in 1..LENGTH_tags |->
                        IF k <= first_match(statics) THEN NullStr ELSE tags[k]]
          /\ theme' = theme
       \/ /\ pc' = "cleaned"
          /\ freed' = cleanup_pointers(config, tags, theme)
          /\ config' =
               [config EXCEPT
                  !.config_filepath = NULL,
                  !.rule_array =
                      IF config.default_rules_loaded THEN config.rule_array
                      ELSE [table |-> config.rule_array.table,
                            items |-> [k \in DOMAIN config.rule_array.items |->
                                         [config.rule_array.items[k] EXCEPT
                                            !.class = <<>>, !.instance = <<>>,
                                            !.title = <<>>]]],
                  !.keybind_array =
                      IF config.default_keybinds_loaded THEN config.keybind_array
                      ELSE StaticTable(NULL),
                  !.buttonbind_array =
                      IF config.default_buttonbinds_loaded THEN config.buttonbind_array
                      ELSE StaticTable(NULL),
                  !.libconfig_config = [file |-> NULL]]
          /\ tags' = [k \in 1..LENGTH_tags |-> NullStr]
          /\ theme' = [k \in 1..LENGTH_theme_map |-> IF k = 1 THEN theme[k] ELSE NullStr]
    /\ UNCHANGED <<env, fs, doc, config_filepaths, idx, opened, returned,
                   total_errors, backup, ret, bind_in, bind_out, parses>>

\* The caller calls parse_config again on the aggregate config_cleanup left:
\* the locals of the call start afresh, the globals are as they were left.
parse_config_again ==
    /\ pc = "cleaned"
    /\ parses < MaxParses
    /\ parses' = parses + 1
    /\ pc' = "start"
    /\ config_filepaths' = <<>>
    /\ idx' = 0
    /\ opened' = <<>>
    /\ returned' = <<>>
    /\ total_errors' = 0
    /\ backup' = NoBackup
    /\ ret' = 0
    /\ UNCHANGED <<env, fs, doc, config, tags, theme, bind_in, bind_out, freed>>

\* A key line whose action and argument resolve before its modifier fails:
\* the element is marked invalid with its argument allocated.
KeyLineLate == <<"bogus", "+", "q", ",", "spawn", ",", "st">>

\* The documents that differ from BaseDoc in at most one section, with the
\* line above and a button line with a string argument among the bindings.
ReloadDocs ==
    { [BaseDoc EXCEPT ![x[1]] = x[2]] :
        x \in UNION { {s} \X SectionChoices(s) : s \in SectionNames } }
    \cup { [BaseDoc EXCEPT !.keybinds = <<l>>] :
             l \in (SeqsUpTo({KeyLineOk, KeyLineLate, KeyLineSpawn}, MaxBinds) \ {<<>>}) }
    \cup { [BaseDoc EXCEPT !.buttonbinds = <<l>>] :
             l \in (SeqsUpTo({<<"1", ",", "client", ",", "spawn", ",", "st">>, ButtonLineBad},
                             MaxBinds) \ {<<>>}) }

\* Every such document in every setup without -c, without an unparsable
\* file and with at most one file present.
InitReload ==
    \E x \in { s \in Setups :
                 /\ s.env.cli = NULL
                 /\ \A p \in DOMAIN s.fs : s.fs[p] # "bad"
                 /\ Cardinality({ p \in DOMAIN s.fs : s.fs[p] = "good" }) <= 1 }
             \X ReloadDocs :
        /\ \/ pc = "start"
           \/ pc = "start_null" /\ x[2] = BaseDoc
        /\ env = x[1].env
        /\ fs = x[1].fs
        /\ doc = x[2]
        /\ config = ZeroConfig(NULL)
        /\ config_filepaths = <<>>
        /\ idx = 0
        /\ opened = <<>>
        /\ returned = <<>>
        /\ total_errors = 0
        /\ backup = NoBackup
        /\ ret = 0
        /\ tags = DefaultTags
        /\ theme = DefaultTheme
        /\ bind_in = NoBind
        /\ bind_out = NoBindOut
        /\ parses = 1
        /\ freed = {}

NextReload ==
    \/ Next
    \/ config_cleanup
    \/ parse_config_again

SpecReload == InitReload /\ [][NextReload]_vars

-----------------------------------------------------------------------------
(* Properties of the resolution chain and of parse_config's result.        *)

\* A candidate was loaded: config_read succeeded on some file.
Loaded == config.libconfig_config.file # NULL

\* parse_config has returned.
Returned == pc = "done"

NotNull(p) == p # NULL

\* The candidate list the documentation gives, for the environment of the run.
DocumentedOrder ==
    SelectSeq(<<env.cli,
                IF env.config_home = NULL THEN NULL ELSE env.config_home \o "/dwm.conf",
                IF env.config_home = NULL THEN NULL ELSE env.config_home \o "/dwm/dwm.conf",
                IF env.data_home = NULL THEN NULL ELSE env.data_home \o "/dwm/dwm_last.conf",
                "/etc/dwm/dwm.conf">>,
              NotNull)

\* The index of the candidate that won, when one was loaded.
Winner == Len(opened)

\* The winner is the backup candidate or the system-fallback candidate, by
\* its position in the candidate list.
WinnerIsFallbackCandidate ==
    \/ Winner = Len(config_filepaths)
    \/ env.data_home # NULL /\ Winner = Len(config_filepaths) - 1

\* The environment resolves the data directory and -c does not name the
\* system file: string comparison of paths then tells the candidates apart.
PathsTellCandidatesApart ==
    env.data_home # NULL /\ env.cli # SystemFallbackPath

\* C1: the candidates are the documented ones in the documented order; the
\* files opened so far are a prefix of them, every opened file but the winner
\* failed to open or parse, the winner is good and is the file loaded and the
\* path recorded, so no candidate after the first good one is ever opened.
C1_FirstGoodCandidateWins ==
    /\ pc \notin {"start", "open", "start_null", "exited"}
         => config_filepaths = DocumentedOrder
    /\ Len(opened) <= Len(config_filepaths)
    /\ opened = SubSeq(config_filepaths, 1, Len(opened))
    /\ \A k \in 1..Len(opened) :
         (k < Len(opened) \/ ~Loaded) => fs[opened[k]] # "good"
    /\ Loaded =>
         /\ opened # <<>>
         /\ pc \in {"generic", "crashed"} => fs[opened[Winner]] = "good"
         /\ config.config_filepath = opened[Winner]
         /\ config.libconfig_config.file = opened[Winner]
    /\ (Returned /\ ~Loaded) => opened = config_filepaths

\* C1 witness: a run that skipped a candidate, loaded the next one and never
\* opened a later candidate that was good too.
C1_Witness ==
    /\ Returned /\ Loaded
    /\ Winner >= 2
    /\ \E k \in (Winner + 1)..Len(config_filepaths) : fs[config_filepaths[k]] = "good"

C3_BackupIffCleanUserFile ==
    (Returned /\ PathsTellCandidatesApart)
        => (backup.called <=>
              (Loaded /\ sum_seq(returned) = 0 /\ ~WinnerIsFallbackCandidate))

\* C3 amended: a backup is attempted exactly when a candidate was loaded, the
\* failure total is zero, fallback_config_loaded is false and neither the
\* built-in key table nor the built-in button table is still in use.
C3_BackupIffCleanAndNoDefaultBinds ==
    Returned
        => (backup.called <=>
              /\ Loaded
              /\ sum_seq(returned) = 0
              /\ ~config.fallback_config_loaded
              /\ ~config.default_keybinds_loaded
              /\ ~config.default_buttonbinds_loaded)

\* C3 witness: the user's own file parsed without a failure but had no
\* keybinds section, and no backup was attempted.
C3_Witness ==
    /\ Returned /\ Loaded /\ PathsTellCandidatesApart
    /\ ~WinnerIsFallbackCandidate
    /\ sum_seq(returned) = 0
    /\ config.default_keybinds_loaded
    /\ ~backup.called

\* C4 as stated: parse_config returns 0 only when the user's own file was
\* loaded, no section failed and the backup write was performed.  Checked
\* where path comparison tells the candidates apart.
C4_ZeroOnlyForBackedUpUserFile ==
    (Returned /\ ret = 0 /\ PathsTellCandidatesApart)
        => /\ Loaded
           /\ ~WinnerIsFallbackCandidate
           /\ \A k \in 1..Len(returned) : returned[k] = 0
           /\ backup.called

\* C4 amended: parse_config returns 0 exactly when a candidate was loaded and
\* each of the six section parsers reported no failure, whichever candidate
\* it was and whether or not a backup was written.
C4_ZeroIffNoSectionFailed ==
    Returned
        => (ret = 0 <=>
              /\ Loaded
              /\ Len(returned) = 6
              /\ \A k \in 1..Len(returned) : returned[k] = 0)

\* C4 witness: the system fallback was loaded and parse_config returned 0
\* without a backup.
C4_Witness ==
    /\ Returned /\ ret = 0 /\ PathsTellCandidatesApart
    /\ Loaded /\ WinnerIsFallbackCandidate
    /\ ~backup.called

\* C5: when no candidate opens and parses, parse_config returns a negative
\* value, the aggregate holds the built-in tables with their lengths and all
\* default flags, tags and theme keep their values, no section parser ran and
\* no backup was attempted.
C5_NoCandidateKeepsDefaults ==
    (Returned /\ \A k \in 1..Len(config_filepaths) : fs[config_filepaths[k]] # "good")
        => /\ ret < 0
           /\ config.rule_array = StaticTable("rules")
           /\ config.rule_array_size = LENGTH_rules
           /\ config.keybind_array = StaticTable("keys")
           /\ config.keybind_array_size = LENGTH_keys
           /\ config.buttonbind_array = StaticTable("buttons")
           /\ config.buttonbind_array_size = LENGTH_buttons
           /\ config.default_rules_loaded
           /\ config.default_keybinds_loaded
           /\ config.default_buttonbinds_loaded
           /\ tags = DefaultTags
           /\ \A k \in 1..LENGTH_theme_map : theme[k].str = DefaultTheme[k].str
           /\ returned = <<>>
           /\ ~backup.called

\* C5 witness: every candidate was opened and none was good.
C5_Witness ==
    /\ Returned /\ ~Loaded
    /\ Len(opened) >= 4
    /\ \E k \in 1..Len(opened) : fs[opened[k]] = "bad"

\* C6: when a candidate is loaded, the value returned is the sum of the six
\* section counts, each of them non-negative; it is never negative and is
\* positive exactly when some section reported a failure.
C6_ReturnIsSumOfSections ==
    (Returned /\ Loaded)
        => /\ Len(returned) = 6
           /\ \A k \in 1..6 : returned[k] >= 0
           /\ ret = returned[1] + returned[2] + returned[3]
                    + returned[4] + returned[5] + returned[6]
           /\ ret >= 0
           /\ (ret > 0 <=> \E k \in 1..6 : returned[k] > 0)

\* C6 witness: two different sections reported failures.
C6_Witness ==
    /\ Returned /\ Loaded
    /\ ret >= 3
    /\ \E j, k \in 1..6 : j < k /\ returned[j] > 0 /\ returned[k] > 0

-----------------------------------------------------------------------------
(* Properties of the binding lists and of the binding grammar.             *)

\* parse_config has returned after parsing a non-empty keybinds /
\* buttonbinds list.
KeybindsParsed ==
    Returned /\ Loaded /\ doc.keybinds # <<>> /\ doc.keybinds[1] # <<>>
ButtonbindsParsed ==
    Returned /\ Loaded /\ doc.buttonbinds # <<>> /\ doc.buttonbinds[1] # <<>>

\* A line parses when it is parsed on its own.
KeyLineParses(l) == _parse_keybind(l, config.max_keys, ZeroKey).ret = 0
ButtonLineParses(l) == _parse_buttonbind(l, config.max_keys, ZeroButton).ret = 0

\* A stored entry that does not carry the sentinel trigger.
KeyStored(key) == key.keysym # NoSymbol
ButtonStored(button) == button.button # 0

\* The list with its failing lines left out, parsed as a list of its own.
KeysWithoutFailing ==
    LET kept == SelectSeq(doc.keybinds[1], KeyLineParses) IN
    parse_keybind_list(kept, 1, config.max_keys, ecalloc(Len(kept), ZeroKey), 0)
ButtonsWithoutFailing ==
    LET kept == SelectSeq(doc.buttonbinds[1], ButtonLineParses) IN
    parse_buttonbind_list(kept, 1, config.max_keys, ecalloc(Len(kept), ZeroButton), 0)

\* C8: the stored array is as long as the list; the section's count is the
\* number of lines that fail; a failing line's entry carries the sentinel
\* trigger; the other entries are, in order, what the list without the
\* failing lines parses to.
C8_FailingElementsDoNotAffectOthers ==
    /\ KeybindsParsed =>
         LET list == doc.keybinds[1]
             items == config.keybind_array.items
         IN  /\ config.keybind_array_size = Len(list)
             /\ Len(items) = Len(list)
             /\ returned[2] = Cardinality({k \in 1..Len(list) : ~KeyLineParses(list[k])})
             /\ \A k \in 1..Len(list) :
                  ~KeyLineParses(list[k]) => items[k].keysym = NoSymbol
             /\ SelectSeq(items, KeyStored) = KeysWithoutFailing.array
    /\ ButtonbindsParsed =>
         LET list == doc.buttonbinds[1]
             items == config.buttonbind_array.items
         IN  /\ config.buttonbind_array_size = Len(list)
             /\ Len(items) = Len(list)
             /\ returned[3] = Cardinality({k \in 1..Len(list) : ~ButtonLineParses(list[k])})
             /\ \A k \in 1..Len(list) :
                  ~ButtonLineParses(list[k]) => items[k].button = 0
             /\ SelectSeq(items, ButtonStored) = ButtonsWithoutFailing.array

\* C8 witness: a keybinds list whose first line fails and whose second line
\* is stored, and a buttonbinds list with a failing line.
C8_Witness ==
    /\ KeybindsParsed /\ ButtonbindsParsed
    /\ Len(doc.keybinds[1]) = 2
    /\ ~KeyLineParses(doc.keybinds[1][1])
    /\ config.keybind_array.items[2].keysym # NoSymbol
    /\ returned[2] = 1
    /\ returned[3] >= 1

\* A line was parsed on its own.
Bound == pc = "bound"

BindRet == bind_out.ret

\* A word resolves in a table when the table has its lower-cased form.
ResolvesIn(map, w) == \E k \in 1..Len(map) : map[k].name = tolower_word(w)

ResolvesAsKey(w) == XStringToKeysym(<<w>>) # NoSymbol

ResolvesAsButton(w) ==
    \/ ResolvesIn(button_alias_map, w)
    \/ LET n == strtol_word(w) IN n.conv /\ n.full /\ n.val >= 1 /\ n.val <= 255

\* The argument kind the action table declares for an action word.
ActionKind(w) ==
    function_alias_map[CHOOSE k \in 1..Len(function_alias_map) :
                           function_alias_map[k].name = tolower_word(w)].arg_type

\* The argument token lexes completely as the kind.
LexesFully(kind, arg) ==
    CASE kind = ARG_TYPE_INT -> strtol(arg).end_is_nul
      [] kind = ARG_TYPE_UINT -> strtoul(arg).end_is_nul
      [] kind = ARG_TYPE_FLOAT -> strtof(arg).end_is_nul
      [] OTHER -> TRUE

\* Every part of the composed line resolves, and an argument the action needs
\* is there and lexes completely.
ComposedResolves ==
    /\ \A k \in 1..Len(bind_in.mods) : ResolvesIn(modifier_alias_map, bind_in.mods[k])
    /\ IF bind_in.kind = "key"
       THEN ResolvesAsKey(bind_in.trigger)
       ELSE ResolvesAsButton(bind_in.trigger) /\ ResolvesIn(click_alias_map, bind_in.click)
    /\ ResolvesIn(function_alias_map, bind_in.action)
    /\ ActionKind(bind_in.action) # ARG_TYPE_NONE
         => bind_in.arg # <<>> /\ LexesFully(ActionKind(bind_in.action), bind_in.arg)

ComposedBound == Bound /\ bind_in.form = "composed"

\* C7 as stated: a line of the grammar's shape parses exactly when all its
\* parts resolve and its argument, when one is needed, lexes completely.
C7_ParsesIffPartsResolve ==
    ComposedBound => (BindRet = 0 <=> ComposedResolves)

\* C7 amended: a line of the grammar's shape parses exactly when all its
\* parts resolve, its argument, when one is needed, lexes completely, and the
\* chain of modifiers and trigger has at most max_keys tokens.
C7_ParsesIffPartsResolveWithinMaxKeys ==
    ComposedBound
        => (BindRet = 0 <=>
              ComposedResolves /\ Len(bind_in.mods) + 1 <= bind_in.max_keys)

\* C7 witness: a button line whose parts all resolve, with an integer
\* argument, rejected because its chain is longer than max_keys.
C7_Witness ==
    /\ ComposedBound
    /\ bind_in.kind = "button"
    /\ ComposedResolves
    /\ ActionKind(bind_in.action) = ARG_TYPE_INT
    /\ Len(bind_in.mods) + 1 > bind_in.max_keys
    /\ BindRet = -1

FieldsBound == Bound /\ bind_in.form = "fields"

\* The fields a binding must have, and the fields its grammar has.
RequiredFields == IF bind_in.kind = "key" THEN 2 ELSE 3
GrammarFields == IF bind_in.kind = "key" THEN 3 ELSE 4

\* Field k of the raw line is missing, empty or blank.
BlankField(k) ==
    k > Len(bind_in.fields) \/ _trim_whitespace(bind_in.fields[k]) = <<>>

\* C9 as stated: a line with an empty or blank required field is rejected.
C9_EmptyRequiredFieldRejected ==
    (FieldsBound /\ \E k \in 1..RequiredFields : BlankField(k)) => BindRet = -1

\* The action field names an action whose argument kind is none, and an
\* argument field follows it.
ArgumentForNoneKind ==
    /\ Len(bind_in.fields) = GrammarFields
    /\ \A k \in 1..GrammarFields : ~BlankField(k)
    /\ LET action == _trim_whitespace(bind_in.fields[RequiredFields]) IN
       /\ Len(action) = 1
       /\ ResolvesIn(function_alias_map, action[1])
       /\ ActionKind(action[1]) = ARG_TYPE_NONE

\* C10 as stated: a line with more fields than the grammar has, or with an
\* argument for an action that takes none, is rejected.
C10_SurplusFieldRejected ==
    (FieldsBound /\ (Len(bind_in.fields) > GrammarFields \/ ArgumentForNoneKind))
        => BindRet = -1

ChainBound == Bound /\ bind_in.form = "chain"

NotBlank(tok) == _trim_whitespace(tok) # <<>>

\* The tokens of the first field that are not blank.
ChainTokenCount == Len(SelectSeq(strtok(bind_in.fields[1], "+"), NotBlank))

\* The largest value the max-keys setting can take.
MAX_KEYS_LIMIT == 10

\* What the same line returns when max_keys is as large as it can be.
RetAtLargestMaxKeys ==
    IF bind_in.kind = "key"
    THEN _parse_keybind(bind_in.line, MAX_KEYS_LIMIT, ZeroKey).ret
    ELSE _parse_buttonbind(bind_in.line, MAX_KEYS_LIMIT, ZeroButton).ret

\* C11 as stated: a first field with more than max_keys tokens is rejected
\* whatever the tokens are, and one with 1 to max_keys tokens is not rejected
\* for its length: it returns what it returns under the largest max_keys.
C11_LengthDecidesRejection ==
    ChainBound =>
        /\ ChainTokenCount > bind_in.max_keys => BindRet = -1
        /\ (ChainTokenCount >= 1 /\ ChainTokenCount <= bind_in.max_keys)
             => BindRet = RetAtLargestMaxKeys

\* The row of the action table for the action word of a composed line.
ActionRow ==
    function_alias_map[CHOOSE k \in 1..Len(function_alias_map) :
                           function_alias_map[k].name = tolower_word(bind_in.action)]

\* A composed key line whose parts resolve within max_keys, whose action takes
\* an integer and whose argument is a whole number inside the action's range.
IntegerInRange ==
    /\ ComposedBound /\ bind_in.kind = "key"
    /\ ComposedResolves /\ Len(bind_in.mods) + 1 <= bind_in.max_keys
    /\ ActionRow.arg_type = ARG_TYPE_INT
    /\ strtol(bind_in.arg).val >= ActionRow.range_min
    /\ strtol(bind_in.arg).val <= ActionRow.range_max

ArgumentStoredUnchanged ==
    BindRet = 0 /\ bind_out.key.arg.i = strtol(bind_in.arg).val

\* C12 as stated: the line "super, tag, 5" parses and stores the integer 5,
\* and an integer argument inside the action's range is stored unchanged.
C12_SuperTagFiveStoresFive ==
    /\ (Bound /\ bind_in.line = <<"super", ",", " ", "tag", ",", " ", "5">>)
         => BindRet = 0 /\ bind_out.key.arg.i = 5
    /\ IntegerInRange => ArgumentStoredUnchanged

\* C12 amended: the line "super + q, tag, 5" parses when max_keys is at least
\* 2 and stores the integer 5, and an integer argument inside the action's
\* range is stored unchanged.
C12_SuperQTagFiveStoresFive ==
    /\ (/\ Bound /\ bind_in.max_keys >= 2
        /\ bind_in.line = <<"super", " ", "+", " ", "q", ",", " ", "tag", ",", " ", "5">>)
         => BindRet = 0 /\ bind_out.key.arg.i = 5 /\ bind_out.key.keysym = "XK_q"
    /\ IntegerInRange => ArgumentStoredUnchanged

\* C12 witness: "tag" was given -1, the low end of its range, and stored it.
C12_Witness ==
    /\ IntegerInRange
    /\ bind_in.action = "tag"
    /\ bind_in.arg = <<"-1">>
    /\ bind_out.key.arg.i = -1

\* A clamp function has been called on the input.
Clamped == pc \in {"clamped", "reclamped"}

\* v lies in [min, max] of the call, in the order of the call's type.
WithinLimits(v) ==
    ~v.nan /\ bind_in.min.val <= v.val /\ v.val <= bind_in.max.val

\* C13 as stated: an input inside [min, max] comes back unchanged without a
\* warning, an input outside comes back as min or max with a warning, the
\* result lies in [min, max], and clamping the result again changes nothing.
C13_ClampIntoRangeOnce ==
    /\ Clamped =>
         /\ WithinLimits(bind_in.input)
              => bind_out[1].value = bind_in.input /\ ~bind_out[1].warned
         /\ ~WithinLimits(bind_in.input)
              => bind_out[1].value \in {bind_in.min, bind_in.max} /\ bind_out[1].warned
         /\ WithinLimits(bind_out[1].value)
    /\ pc = "reclamped" =>
         bind_out[2].value = bind_out[1].value /\ ~bind_out[2].warned

\* A typed lookup has been called.
Looked == pc = "looked"

\* What the destination held before the call, in the type of the lookup.
PriorValue ==
    CASE bind_in.kind = "bool" -> bind_in.prior.num # 0
      [] bind_in.kind = "string" -> <<bind_in.prior.str>>
      [] OTHER -> bind_in.prior.num

-----------------------------------------------------------------------------
(* Properties of the rules, tag names and theme sections.                  *)

\* parse_config has returned after parsing a non-empty rules list.
RulesParsed == Returned /\ Loaded /\ doc.rules # <<>> /\ doc.rules[1] # <<>>

RuleStringFields == {"class", "instance", "title"}

\* The word is "null" in some letter case.
SpellsNull(s) == s \in {"null", "NULL", "Null"}

\* C15: a class, instance or title that spells "null" in any letter case is
\* stored as the NULL pointer and is no failure; any other string is stored
\* as that string.
C15_NullWordIsMatchAny ==
    RulesParsed =>
        LET list == doc.rules[1]
            items == config.rule_array.items
        IN  /\ \A k \in 1..Len(list) : \A f \in RuleStringFields :
                 list[k][f] # <<>> =>
                     items[k][f] = (IF SpellsNull(list[k][f][1]) THEN <<>> ELSE list[k][f])
            /\ (\A k \in 1..Len(list) : \A f \in DOMAIN list[k] : list[k][f] # <<>>)
                 => returned[4] = 0

\* C15 witness: a rule with "null" and "NULL" next to a real class name was
\* parsed without a failure.
C15_Witness ==
    /\ RulesParsed
    /\ doc.rules[1][1].instance = <<"null">> /\ doc.rules[1][1].title = <<"NULL">>
    /\ config.rule_array.items[1].instance = <<>>
    /\ config.rule_array.items[1].title = <<>>
    /\ config.rule_array.items[1].class = <<"Gimp">>
    /\ returned[4] = 0

\* The fields of a rule element that are missing or of the wrong type.
MissingRuleFields ==
    { kf \in (1..Len(doc.rules[1])) \X {"class", "instance", "title", "tag_mask",
                                         "monitor", "floating"} :
        doc.rules[1][kf[1]][kf[2]] = <<>> }

\* A number field: the preset when it is missing, the document's value when
\* that lies inside the range, and always a value inside the range.
NumberStored(found, stored, preset, min, max) ==
    /\ found = <<>> => stored = preset
    /\ (found # <<>> /\ found[1] >= min /\ found[1] <= max) => stored = found[1]
    /\ stored >= min /\ stored <= max

\* C16: every missing or wrongly typed field of a rule adds one to the count
\* and keeps its preset; the other fields of the rule and the other rules are
\* stored from the document; stored numbers lie inside their ranges.
C16_RuleFieldsIndependent ==
    RulesParsed =>
        LET list == doc.rules[1]
            items == config.rule_array.items
        IN  /\ config.rule_array_size = Len(list)
            /\ DOMAIN items = 1..Len(list)
            /\ returned[4] = Cardinality(MissingRuleFields)
            /\ \A k \in 1..Len(list) :
                 /\ \A f \in RuleStringFields :
                      /\ list[k][f] = <<>> => items[k][f] = <<>>
                      /\ (list[k][f] # <<>> /\ ~SpellsNull(list[k][f][1]))
                           => items[k][f] = list[k][f]
                 /\ NumberStored(list[k].tag_mask, items[k].tags, 0, 0, TAGMASK)
                 /\ NumberStored(list[k].monitor, items[k].monitor, -1, -1, 99)
                 /\ NumberStored(list[k].floating, items[k].isfloating, 0, 0, 1)

\* C16 witness: the second rule lacks its instance and has numbers outside
\* every range; its class and the first rule are stored all the same.
C16_Witness ==
    /\ RulesParsed
    /\ Len(doc.rules[1]) = 2
    /\ doc.rules[1][2].instance = <<>>
    /\ returned[4] = 1
    /\ config.rule_array.items[2].class = <<"Firefox">>
    /\ config.rule_array.items[2].monitor = 99
    /\ config.rule_array.items[1].class = <<"Gimp">>

\* parse_config has returned after reading a tag-names list.
TagsParsed == Returned /\ Loaded /\ doc.tag_names # <<>>

\* The number of list elements that are used: min(N, tag count).
TagsUsed ==
    IF Len(doc.tag_names[1]) > LENGTH_tags THEN LENGTH_tags ELSE Len(doc.tag_names[1])

\* C17: the first min(N, tag count) slots hold the listed names in order, a
\* slot whose element is not a string keeps its value and counts as one
\* failure, elements beyond the tag count are ignored, and the slots from N
\* on keep their built-in names.
C17_TagNamesOverwritePrefix ==
    TagsParsed =>
        LET list == doc.tag_names[1] IN
        /\ DOMAIN tags = 1..LENGTH_tags
        /\ \A k \in 1..LENGTH_tags :
             IF k <= TagsUsed /\ list[k] # <<>>
             THEN tags[k].str = list[k][1]
             ELSE tags[k] = DefaultTags[k]
        /\ returned[5] = Cardinality({k \in 1..TagsUsed : list[k] = <<>>})

\* C17 witness: a list of two elements, the second not a string: one name is
\* stored, one failure is counted and the other slots keep their names.
C17_Witness ==
    /\ TagsParsed
    /\ Len(doc.tag_names[1]) = 2
    /\ doc.tag_names[1][2] = <<>>
    /\ tags[1].str = "web"
    /\ tags[2].str = "2"
    /\ tags[9].str = "9"
    /\ returned[5] = 1

\* parse_config has returned after parsing a non-empty themes list.
ThemesParsed == Returned /\ Loaded /\ doc.themes # <<>> /\ doc.themes[1] # <<>>

\* The rows the first theme element omits (or holds with the wrong type).
OmittedThemeRows == {k \in 1..LENGTH_theme_map : doc.themes[1][1][k] = <<>>}

\* C18: only the first element of the themes list is consulted, and each of
\* the seven values is replaced exactly when its own row is found there.
C18_FirstThemeOnly ==
    ThemesParsed =>
        \A k \in 1..LENGTH_theme_map :
            theme[k].str = (IF k \in OmittedThemeRows
                            THEN DefaultTheme[k].str
                            ELSE doc.themes[1][1][k][1])

\* C18 witness: the first element omits the font and a second element has
\* one; the font keeps its default and the colours come from the first.
C18_Witness ==
    /\ ThemesParsed
    /\ Len(doc.themes[1]) = 2
    /\ OmittedThemeRows = {1}
    /\ doc.themes[1][2][1] = <<"#abcdef">>
    /\ theme[1].str = "monospace:size=10"
    /\ theme[2].str = "#123456"

\* C19 as stated: a row the theme element omits adds nothing to the count.
C19_OmittedThemeRowIsNoFailure ==
    ThemesParsed => returned[6] = 0

\* C19 amended: every row the theme element omits keeps its default and adds
\* one to the count.
C19_OmittedThemeRowIsOneFailure ==
    ThemesParsed =>
        /\ returned[6] = Cardinality(OmittedThemeRows)
        /\ \A k \in OmittedThemeRows : theme[k].str = DefaultTheme[k].str

\* C19 witness: the user's own file, whose only deviation is an omitted font,
\* returns 1 and is not backed up.
C19_Witness ==
    /\ ThemesParsed
    /\ OmittedThemeRows = {1}
    /\ ~WinnerIsFallbackCandidate /\ PathsTellCandidatesApart
    /\ returned = <<0, 0, 0, 0, 0, 1>>
    /\ ret = 1
    /\ ~backup.called

\* The process was terminated inside parse_config: by exit, or by a crash.
ProcessTerminated == pc \in {"exited", "crashed"}

\* C20 as stated: the process is terminated only when parse_config was called
\* with a NULL aggregate, and then before any candidate is probed or any
\* default is loaded.
C20_OnlyNullAggregateTerminates ==
    ProcessTerminated =>
        /\ pc = "exited"
        /\ config_filepaths = <<>> /\ opened = <<>>
        /\ config = ZeroConfig(env.cli)
        /\ theme = DefaultTheme

-----------------------------------------------------------------------------
(* C21: directories on the way to the backup file.                         *)

\* _make_directory_path returned -1: a stat or mkdir of a parent failed.
DirectoryFailed == backup.mkdir = "failed"

\* config_write_file was called for dwm_last.conf.
WriteAttempted == backup.write # "none"

\* What parse_config returns does not depend on the backup: it is the sum of
\* the section parsers' results whatever _backup_config did.
BackupLeavesReturn == (Returned /\ backup.called) => ret = total_errors /\ ret = 0

\* C21: in _backup_config a parent directory that already exists is a
\* success and the write goes ahead; when a parent cannot be stat-ed or
\* created the backup is abandoned and dwm_last.conf is not written to; and
\* whatever the backup did (no data directory, failed directory, failed
\* write), the value parse_config returns is the one the sections gave.
C21_FailedDirectoryAbandonsBackup ==
    /\ (Returned /\ backup.mkdir = "exists") => WriteAttempted
    /\ (Returned /\ DirectoryFailed) => ~WriteAttempted
    /\ BackupLeavesReturn

-----------------------------------------------------------------------------
(* C22: a directory root that cannot be resolved.                          *)

\* The candidates that do not depend on the data directory, in order.
CandidatesWithoutDataHome ==
    SelectSeq(<<env.cli,
                IF env.config_home = NULL THEN NULL ELSE env.config_home \o "/dwm.conf",
                IF env.config_home = NULL THEN NULL ELSE env.config_home \o "/dwm/dwm.conf",
                "/etc/dwm/dwm.conf">>,
              NotNull)

\* C22: when the data directory cannot be resolved the backup candidate is
\* left out and nothing else changes: the remaining candidates are probed in
\* order, a candidate that opens and parses is loaded and parsing goes on
\* (the process is not killed), and the loaded file is classified as the
\* system fallback exactly when it is the file at the system path.
C22_UnresolvedRootOnlyShortensList ==
    env.data_home = NULL =>
        /\ pc \notin {"start", "open", "start_null", "exited"}
             => config_filepaths = CandidatesWithoutDataHome
        /\ pc # "crashed"
        /\ Loaded => (config.fallback_config_loaded
                        <=> config.config_filepath = SystemFallbackPath)

\* The part of C22 that is about the list alone.
C22_ListOnly ==
    (env.data_home = NULL /\ pc \notin {"start", "open", "start_null", "exited"})
        => config_filepaths = CandidatesWithoutDataHome

-----------------------------------------------------------------------------
(* C23: the provenance of the aggregate.                                   *)

\* The four provenances, read off the aggregate's flags and recorded path.
BuiltInHardcoded ==
    /\ config.config_filepath = NULL
    /\ config.default_keybinds_loaded /\ config.default_buttonbinds_loaded
    /\ config.default_rules_loaded
    /\ ~config.fallback_config_loaded
ParsedFromUserFile ==
    config.config_filepath # NULL /\ ~config.fallback_config_loaded
ParsedFromBackup ==
    /\ config.config_filepath # NULL /\ config.fallback_config_loaded
    /\ config.config_filepath = config_backup(env)
ParsedFromSystemFallback ==
    /\ config.config_filepath # NULL /\ config.fallback_config_loaded
    /\ config.config_filepath = config_fallback

ProvenancesHolding ==
    { p \in {"user", "backup", "system", "builtin"} :
        \/ p = "user" /\ ParsedFromUserFile
        \/ p = "backup" /\ ParsedFromBackup
        \/ p = "system" /\ ParsedFromSystemFallback
        \/ p = "builtin" /\ BuiltInHardcoded }

C23_WithDataHome ==
    (Returned /\ env.data_home # NULL) =>
        /\ Cardinality(ProvenancesHolding) = 1
        /\ backup.called => ParsedFromUserFile

-----------------------------------------------------------------------------
(* C24: the argument-kind tag of the parsed bindings.                      *)

\* The func, tag and payload of every element of the parsed keybind and
\* buttonbind arrays, valid or not.
ParsedBindEntries ==
    { [func |-> b.func, argument_type |-> b.argument_type, v |-> b.arg.v] :
        b \in (IF config.keybind_array.table = "heap"
               THEN Range(config.keybind_array.items) ELSE {}) }
    \cup { [func |-> b.func, argument_type |-> b.argument_type, v |-> b.arg.v] :
             b \in (IF config.buttonbind_array.table = "heap"
                    THEN Range(config.buttonbind_array.items) ELSE {}) }

\* The tag of every parsed element is the kind the action table declares for
\* its action, and only an element tagged as a pointer holds a payload.
TagsMatchActionTable ==
    \A e \in ParsedBindEntries :
        /\ e.func # NULL =>
             \E k \in DOMAIN function_alias_map :
                 /\ function_alias_map[k].func = e.func
                 /\ function_alias_map[k].arg_type = e.argument_type
        /\ e.v # <<>> => e.argument_type = ARG_TYPE_POINTER

\* The binding arrays the call of parse_config before the cleanup filled,
\* parsed again from the document it read (<<>> when it filled none).
KeysBeforeCleanup ==
    IF returned = <<>> \/ doc.keybinds = <<>> THEN <<>>
    ELSE parse_keybind_list(doc.keybinds[1], 1, config.max_keys,
                            ecalloc(Len(doc.keybinds[1]), ZeroKey), 0).array
ButtonsBeforeCleanup ==
    IF returned = <<>> \/ doc.buttonbinds = <<>> THEN <<>>
    ELSE parse_buttonbind_list(doc.buttonbinds[1], 1, config.max_keys,
                               ecalloc(Len(doc.buttonbinds[1]), ZeroButton), 0).array

\* The payloads those arrays held, named as config_cleanup names a release.
AllocatedPayloads ==
    { [what |-> "keybind_array.arg.v", at |-> k, heap |-> TRUE] :
        k \in { j \in DOMAIN KeysBeforeCleanup : KeysBeforeCleanup[j].arg.v # <<>> } }
    \cup { [what |-> "buttonbind_array.arg.v", at |-> k, heap |-> TRUE] :
             k \in { j \in DOMAIN ButtonsBeforeCleanup : ButtonsBeforeCleanup[j].arg.v # <<>> } }

ReleasedPayloads ==
    { p \in freed : p.what \in {"keybind_array.arg.v", "buttonbind_array.arg.v"} }

\* C24: for every element of the parsed keybind and buttonbind arrays,
\* invalid ones included, a resolved action has its declared argument kind as
\* the stored tag and the payload is heap-owned only under the pointer tag;
\* a complete config_cleanup has released exactly the payloads that were
\* allocated.
C24_TagMatchesActionAndOwnsPayload ==
    /\ TagsMatchActionTable
    /\ pc = "cleaned" => ReleasedPayloads = AllocatedPayloads

\* C24 witness: cleanup has released the payload of an element that was
\* marked invalid after its action and argument were stored.
C24_Witness ==
    /\ pc = "cleaned"
    /\ returned # <<>>
    /\ doc.keybinds # <<>>
    /\ \E k \in DOMAIN doc.keybinds[1] :
         /\ doc.keybinds[1][k] = KeyLineLate
         /\ KeysBeforeCleanup[k].keysym = NoSymbol
         /\ [what |-> "keybind_array.arg.v", at |-> k, heap |-> TRUE] \in freed

-----------------------------------------------------------------------------
(* C25: the click field of a button binding.                               *)

\* A composed button line whose chain, button and action resolve, so that the
\* click field alone decides the result.
ClickDecides ==
    /\ ComposedBound
    /\ bind_in.kind = "button"
    /\ \A k \in 1..Len(bind_in.mods) : ResolvesIn(modifier_alias_map, bind_in.mods[k])
    /\ Len(bind_in.mods) + 1 <= bind_in.max_keys
    /\ ResolvesAsButton(bind_in.trigger)
    /\ ResolvesIn(function_alias_map, bind_in.action)
    /\ ActionKind(bind_in.action) = ARG_TYPE_NONE

\* The zone a click name stands for, "0" for a name that is none.
ClickZone(name, window_zone) ==
    CASE name = "tag" -> "ClkTagBar"
      [] name = "layout" -> "ClkLtSymbol"
      [] name = "status" -> "ClkStatusText"
      [] name = "title" -> "ClkWinTitle"
      [] name = "client" -> "ClkClientWin"
      [] name = "window" -> window_zone
      [] name = "desktop" -> "ClkRootWin"
      [] OTHER -> "0"

\* The line parses with the zone stored, or is rejected with the click left
\* zeroed when the name has no zone.
ClickStoredAs(zone) ==
    IF zone = "0"
    THEN BindRet = -1 /\ bind_out.button.click = "0"
    ELSE BindRet = 0 /\ bind_out.button.click = zone

\* C25 as stated: the click field resolves, in any letter case, for tag,
\* layout, status, title, client, window and desktop, window being the
\* client-window zone like client, and for no other name.
C25_ClickNamesWithWindow ==
    ClickDecides
        => ClickStoredAs(ClickZone(tolower_word(bind_in.click), "ClkClientWin"))

\* C25 amended: the click field resolves, in any letter case, for tag,
\* layout, status, title, client and desktop, and for no other name; window
\* is not a click name.
C25_ClickNamesWithoutWindow ==
    ClickDecides
        => ClickStoredAs(ClickZone(tolower_word(bind_in.click), "0"))

\* C25 witness: "Client" in a button line was stored as the client-window
\* zone.
C25_Witness ==
    /\ ClickDecides
    /\ bind_in.click = "Client"
    /\ BindRet = 0
    /\ bind_out.button.click = "ClkClientWin"

-----------------------------------------------------------------------------
(* C26: the token bound of one parse_config call.                          *)

\* The document's max-keys clamped into [1, 10], 4 when it has none.
DocumentedBound ==
    IF doc.max_keys = <<>> THEN 4
    ELSE IF doc.max_keys[1] < 1 THEN 1
    ELSE IF doc.max_keys[1] > MAX_KEYS_LIMIT THEN MAX_KEYS_LIMIT
    ELSE doc.max_keys[1]

\* The generic settings of the loaded document have been read.
SettingsRead == Len(returned) >= 1

\* The parsed binding arrays are what the binding lines give under bound b.
BindingsParsedUnder(b) ==
    /\ config.keybind_array.table = "heap"
         => config.keybind_array.items
              = parse_keybind_list(doc.keybinds[1], 1, b,
                                   ecalloc(Len(doc.keybinds[1]), ZeroKey), 0).array
    /\ config.buttonbind_array.table = "heap"
         => config.buttonbind_array.items
              = parse_buttonbind_list(doc.buttonbinds[1], 1, b,
                                      ecalloc(Len(doc.buttonbinds[1]), ZeroButton), 0).array

\* max_keys is within its limits once the defaults are loaded, and no
\* binding is parsed before the generic settings are read.
BoundWithinLimitsAndReadFirst ==
    /\ pc \notin {"start", "start_null", "exited"}
         => config.max_keys >= 1 /\ config.max_keys <= MAX_KEYS_LIMIT
    /\ ~SettingsRead
         => config.keybind_array.table # "heap" /\ config.buttonbind_array.table # "heap"

\* C26: within one parse_config call the bound applied to every key and
\* button binding is the document's max-keys clamped into [1, 10], or 4 when
\* the document has none; max_keys is in [1, 10] once the defaults are
\* loaded; the generic settings are read before any binding is parsed.
C26_BoundIsClampedDocumentValue ==
    /\ BoundWithinLimitsAndReadFirst
    /\ SettingsRead => config.max_keys = DocumentedBound /\ BindingsParsedUnder(DocumentedBound)

\* The same for documents whose max-keys is not negative.
C26_NonNegativeDocumentValue ==
    (doc.max_keys = <<>> \/ doc.max_keys[1] >= 0)
        => /\ BoundWithinLimitsAndReadFirst
           /\ SettingsRead => config.max_keys = DocumentedBound
                              /\ BindingsParsedUnder(DocumentedBound)

\* ---------------------------------------------------------------------------
\* A keybinds or buttonbinds list without elements
\* ---------------------------------------------------------------------------

\* parse_config has returned after parsing a document whose keybinds
\* (buttonbinds) list is present and has no element.
EmptyKeybindsParsed == Returned /\ Loaded /\ doc.keybinds = << <<>> >>
EmptyButtonbindsParsed == Returned /\ Loaded /\ doc.buttonbinds = << <<>> >>

\* C27: after a document with an empty keybinds (buttonbinds) list is
\* parsed, the array is still the built-in table, the recorded size is still
\* the built-in table's length, the default flag is still true and the
\* section reported exactly one failure.
C27_EmptyListKeepsDefaultBindings ==
    /\ EmptyKeybindsParsed
         => /\ config.keybind_array = StaticTable("keys")
            /\ config.keybind_array_size = LENGTH_keys
            /\ config.default_keybinds_loaded
            /\ returned[2] = 1
    /\ EmptyButtonbindsParsed
         => /\ config.buttonbind_array = StaticTable("buttons")
            /\ config.buttonbind_array_size = LENGTH_buttons
            /\ config.default_buttonbinds_loaded
            /\ returned[3] = 1

\* What the parsers leave for an empty list: the built-in table, the flag
\* and one failure as stated, with the recorded size of the empty list.
C27_EmptyListRecordsSizeZero ==
    /\ EmptyKeybindsParsed
         => /\ config.keybind_array = StaticTable("keys")
            /\ config.keybind_array_size = 0
            /\ config.default_keybinds_loaded
            /\ returned[2] = 1
    /\ EmptyButtonbindsParsed
         => /\ config.buttonbind_array = StaticTable("buttons")
            /\ config.buttonbind_array_size = 0
            /\ config.default_buttonbinds_loaded
            /\ returned[3] = 1

\* ---------------------------------------------------------------------------
\* Unsigned settings outside their range
\* ---------------------------------------------------------------------------

\* One _libconfig_lookup_uint call has returned for a setting the document
\* holds, with an unsigned range.
UintLooked ==
    /\ pc = "looked"
    /\ bind_in.form = "lookup"
    /\ bind_in.kind = "uint"
    /\ bind_in.found # <<>>
    /\ bind_in.range_min >= 0

\* The bound of [lo, hi] nearest to n, or n when it lies within.
NearestInRange(n, lo, hi) == IF n < lo THEN lo ELSE IF n > hi THEN hi ELSE n

\* C28: an unsigned setting whose document integer is below the range
\* minimum, negative integers included, is stored as the minimum, one above
\* the maximum as the maximum: the stored value is the bound nearest to the
\* document value.
C28_UnsignedStoredAsNearestBound ==
    UintLooked
        => bind_out.written[1]
             = NearestInRange(bind_in.found[1].num, bind_in.range_min, bind_in.range_max)

\* The same for document integers that are not negative.
C28_NonNegativeStoredAsNearestBound ==
    (UintLooked /\ bind_in.found[1].num >= 0)
        => bind_out.written[1]
             = NearestInRange(bind_in.found[1].num, bind_in.range_min, bind_in.range_max)

\* A negative document integer is stored as the range maximum.
C28_NegativeStoredAsMaximum ==
    (UintLooked /\ bind_in.found[1].num < 0)
        => bind_out.written[1] = bind_in.range_max

\* ---------------------------------------------------------------------------
\* parse_config, config_cleanup, parse_config
\* ---------------------------------------------------------------------------

\* parse_config has returned from a call that followed a config_cleanup.
Reparsed == Returned /\ parses > 1

\* tags[] and the theme strings after a first parse of the same files: the
\* built-in values, overwritten by what the document supplies when one loaded.
FreshTags ==
    IF Loaded THEN _parse_tags_config(doc, DefaultTags).tags ELSE DefaultTags
FreshTheme ==
    IF Loaded THEN _parse_theme_config(doc, DefaultTheme).theme ELSE DefaultTheme

\* The rule and binding tables the document does not replace are the
\* built-in ones with their lengths, and the font is set.
TablesAndFontRestored ==
    /\ config.default_rules_loaded => config.rule_array = StaticTable("rules")
    /\ config.default_keybinds_loaded => config.keybind_array = StaticTable("keys")
    /\ config.default_buttonbinds_loaded => config.buttonbind_array = StaticTable("buttons")
    /\ (~Loaded \/ doc.rules = <<>>)
         => config.default_rules_loaded /\ config.rule_array_size = LENGTH_rules
    /\ (~Loaded \/ doc.keybinds = <<>>)
         => config.default_keybinds_loaded /\ config.keybind_array_size = LENGTH_keys
    /\ (~Loaded \/ doc.buttonbinds = <<>>)
         => config.default_buttonbinds_loaded /\ config.buttonbind_array_size = LENGTH_buttons
    /\ theme[1].str = FreshTheme[1].str

\* C29: after parse_config, config_cleanup, parse_config the aggregate is as
\* after a first parse of the same files: every tag name, theme colour, font,
\* rule table and binding table the document does not supply holds its
\* built-in default value.
C29_ReloadRestoresDefaults ==
    Reparsed
        => /\ \A k \in 1..LENGTH_tags : tags[k].str = FreshTags[k].str
           /\ \A k \in 1..LENGTH_theme_map : theme[k].str = FreshTheme[k].str
           /\ TablesAndFontRestored

\* What the second call leaves: the tables and the font as after a first
\* parse, and NULL for every tag name and colour the document does not supply.
C29_UnsuppliedNamesAndColoursAreNull ==
    Reparsed
        => /\ TablesAndFontRestored
           /\ \A k \in 1..LENGTH_tags :
                tags[k] = IF FreshTags[k].heap THEN FreshTags[k] ELSE NullStr
           /\ \A k \in 2..LENGTH_theme_map :
                theme[k] = IF FreshTheme[k].heap THEN FreshTheme[k] ELSE NullStr

\* ---------------------------------------------------------------------------
\* What config_cleanup releases
\* ---------------------------------------------------------------------------

\* Every pointer config_cleanup handed to free() came from the heap.
OnlyHeapReleased == \A p \in freed : p.heap

\* After a complete config_cleanup no tag name, theme string, rule string or
\* table of the parser is left allocated.
NothingLeftAllocated ==
    pc = "cleaned"
        => /\ \A k \in 1..LENGTH_tags : ~tags[k].heap
           /\ \A k \in 1..LENGTH_theme_map : ~theme[k].heap
           /\ config.rule_array.table # "heap"
           /\ config.keybind_array.table # "heap"
           /\ config.buttonbind_array.table # "heap"
           /\ config.config_filepath = NULL

\* C30: after any outcome of parse_config, config_cleanup releases only what
\* the parser allocated on the heap, never a built-in static default, and
\* leaves no string or array of the parser unreleased, the font and the rule
\* array included.
C30_CleanupReleasesExactlyOwnedStorage ==
    OnlyHeapReleased /\ NothingLeftAllocated

\* What config_cleanup does: the only pointers released that are not from
\* the heap are tag names, and the only allocations a complete run leaves
\* are the font and the rule array.
C30_StaticTagsReleasedFontAndRulesLeft ==
    /\ \A p \in freed : ~p.heap => p.what = "tags"
    /\ pc = "cleaned"
         => /\ \A k \in 1..LENGTH_tags : ~tags[k].heap
            /\ \A k \in 2..LENGTH_theme_map : ~theme[k].heap
            /\ theme[1].heap
            /\ config.rule_array.table = "heap" <=> ~config.default_rules_loaded
            /\ config.keybind_array.table # "heap"
            /\ config.buttonbind_array.table # "heap"
            /\ config.config_filepath = NULL

====
